---- MODULE Spec2Model ----
(***************************************************************************)
(* Model of the NBBO backend: order-book reconstruction and cross-venue    *)
(* aggregation (routes/aggregate_order_books.py) and the price channel's   *)
(* poll/broadcast loop with its subscriber handlers                        *)
(* (routes/best_prices_ws.py).                                             *)
(*                                                                         *)
(* Numbers.  Python floats are modelled as fixed-point integers counting   *)
(* halves: 1.0 is 2, 0.5 is 1.  Every price token used below is a whole    *)
(* number, so the sum of two prices is a multiple of four halves and the   *)
(* division by two of the mid price is exact.                              *)
(*                                                                         *)
(* Specifications.  Spec is the price channel: the stream task and the    *)
(* websocket handlers, interleaved at their awaits.  SpecBook is one call  *)
(* of _reconstruct_orderbook or _create_aggregated_orderbook on each input *)
(* of a bounded set.                                                       *)
(*                                                                         *)
(* Optional values.  None is the empty sequence and a present value v is   *)
(* the one-element sequence <<v>>, so that a present 0.0 and an absent     *)
(* value are different values, as they are in Python.                      *)
(***************************************************************************)
EXTENDS Integers, Sequences, FiniteSets, TLC

VARIABLES
    \* ---- a call of _reconstruct_orderbook / _create_aggregated_orderbook
    fnPc,                 \* "reconstruct" | "reconstructed" | "raised" |
                          \* "aggregate" | "aggregated" | "returned" (no call) |
                          \* "route" | "responded" | "http_500"
    raw_data,             \* argument of _reconstruct_orderbook; for a request of
                          \* /aggregate-order-books, the raw_ob of each venue
    all_bids,             \* argument of _create_aggregated_orderbook
    all_asks,             \* argument of _create_aggregated_orderbook
    orderbook,            \* the value returned by the call (None before it,
                          \* and when it raised)
    \* ---- the price channel (best_prices_ws.py)
    active_connections,   \* module-level list of live websockets
    conn,                 \* per websocket: "new" | "open" | "closed" | "done"
    hubPc,                \* "sleep" | "push" | "push_stale" | "push_exc" | "dead"
    hubSnap,              \* the copy active_connections[:] being iterated
    hubIdx,               \* index in hubSnap of the send in flight
    hubMsg,               \* the frame being pushed by the running loop
    last_orderbook,       \* local last_orderbook of the stream task
    now,                  \* wall clock, in units of FREQUENCY
    cycleRaw,             \* what each venue answered in the current cycle
    removeRaised,         \* some list.remove(x) raised ValueError
    delivered,            \* the latest frame put on the wire in the current cycle
    got,                  \* receivers of the running push loop's frame
    admittedLate,         \* websockets accepted while the running push loop
                          \* was under way
    missed,               \* stayed connected through a push loop of the current
                          \* cycle that ended, and were not sent its frame
    \* ---- the snapshot store (database/price_db.py)
    table,                \* rows of price_snapshots, in insertion order
    inserted,             \* arguments of the insert_snapshot calls that met no
                          \* storage error, in call order
    dbCalls,              \* calls of PriceDatabase methods made so far
    lastCall,             \* the latest call: its argument, what it returned,
                          \* whether sqlite3 raised
    \* ---- the trade channel (trades_websocket.py)
    trade_connections,    \* its module-level list active_connections
    tradeConn,            \* per websocket: "new" | "greeting" | "open" |
                          \* "closed" | "done"
    initial_response,     \* per websocket: the initial frame being sent to it
    supPc,                \* manage_websocket_connection: "off" (not created) |
                          \* "check" | "connecting" |
                          \* "subscribing" | "listening" | "pushing" | "sleep"
    running,              \* ws_client.running
    upstream,             \* ws_client.websocket: "none" | "open" | "closed"
    subscribed,           \* coins of the subscriptions sent on this connection
    ended,                \* the receive loop of this connection has ended
    latest_trades,        \* per supported coin: its latest trade, None for {}
    latest_trade_overall, \* the latest trade across all coins
    supTodo,              \* what is left of the copy _broadcast_trade_update
                          \* iterates, the send in flight first
    hbPc,                 \* broadcast_latest_trade_periodically: "off" (not
                          \* created) | "sleep" | "pushing" | "dead"
    hbTodo,               \* what is left of the copy the heartbeat iterates
    hbMsg,                \* the trade in the frame the heartbeat is pushing
    discarded,            \* the last trade _process_trade was called with
                          \* was returned from at `coin not in SUPPORTED_COINS`
    accepted,             \* the trades _process_trade stored since the start,
                          \* in the order read (recorded by SpecFeed only)
    stopped               \* stop_trade_stream has returned

fnVars == <<fnPc, raw_data, all_bids, all_asks, orderbook>>
hubVars == <<active_connections, conn, hubPc, hubSnap, hubIdx, hubMsg,
             last_orderbook, now, cycleRaw, removeRaised, delivered, got, admittedLate,
             missed>>
dbVars == <<table, inserted, dbCalls, lastCall>>
tradeVars == <<trade_connections, tradeConn, initial_response, supPc, running,
               upstream, subscribed, ended, latest_trades, latest_trade_overall,
               supTodo, hbPc, hbTodo, hbMsg, discarded, accepted, stopped>>
vars == <<fnVars, hubVars, dbVars, tradeVars>>

(***************************************************************************)
(* Bounds                                                                  *)
(***************************************************************************)
MaxRawLevels == 2     \* levels per side of a venue payload
MaxAllLevels == 3     \* levels per side handed to the aggregation
MaxSubs == 3          \* websockets that ever connect to /ws/prices
MaxTime == 2          \* polling cycles
MaxDbCalls == 3       \* calls of PriceDatabase methods
MaxTick == 2          \* largest snapshot timestamp, in half minutes
MaxTradeSubs == 2     \* websockets that ever connect to /ws/trades
MaxTimestamp == 1     \* largest "time" of an upstream trade
MaxAccepted == 3      \* trades stored by _process_trade that are recorded

(***************************************************************************)
(* Values                                                                  *)
(***************************************************************************)
None == << >>
Some(v) == <<v>>

\* Python truthiness of an Optional[float]: None and 0.0 are both falsy.
Truthy(o) == o # None /\ o[1] # 0

Range(s) == {s[i] : i \in 1..Len(s)}

SeqsUpTo(S, n) == UNION {[1..k -> S] : k \in 0..n}

\* float(token): the tokens a venue may send, in halves.  "1" and "1.0" are
\* different texts of the same float; "x" is no number (float raises).
FloatTable ==
    [t \in {"0", "0.5", "1", "1.0", "2", "3"} |->
        CASE t = "0" -> 0
          [] t = "0.5" -> 1
          [] t = "1" -> 2
          [] t = "1.0" -> 2
          [] t = "2" -> 4
          [] t = "3" -> 6]

\* A raw level parses when level["px"], level["sz"], level["n"] exist
\* (else KeyError) and float() accepts both texts (else ValueError).
LevelParses(level) ==
    /\ {"px", "sz", "n"} \subseteq DOMAIN level
    /\ level.px \in DOMAIN FloatTable
    /\ level.sz \in DOMAIN FloatTable

OrderLevel(level) ==
    [price |-> FloatTable[level.px],
     size |-> FloatTable[level.sz],
     orders |-> level.n]

\* Mutant of ParseSide: each level is put in front of those parsed before
\* it, so the side comes out in the reverse of the given order.
RECURSIVE ParseSideReversed(_)
ParseSideReversed(side) ==
    IF side = << >> THEN [ok |-> TRUE, levels |-> << >>]
    ELSE IF ~LevelParses(Head(side)) THEN [ok |-> FALSE]
    ELSE LET rest == ParseSideReversed(Tail(side))
         IN IF rest.ok
            THEN [ok |-> TRUE, levels |-> rest.levels \o <<OrderLevel(Head(side))>>]
            ELSE [ok |-> FALSE]

\* The for loop over one side: the levels in the given order, or the
\* exception of the first level that does not parse.
RECURSIVE ParseSide(_)
ParseSide(side) ==
    IF side = << >> THEN [ok |-> TRUE, levels |-> << >>]
    ELSE IF ~LevelParses(Head(side)) THEN [ok |-> FALSE]
    ELSE LET rest == ParseSide(Tail(side))
         IN IF rest.ok
            THEN [ok |-> TRUE, levels |-> <<OrderLevel(Head(side))>> \o rest.levels]
            ELSE [ok |-> FALSE]

\* Mutant of BestOf: the last level instead of the first.
BestOfLast(levels) ==
    IF levels # << >> THEN Some(levels[Len(levels)].price) ELSE None

BestOf(levels) == IF levels # << >> THEN Some(levels[1].price) ELSE None

SpreadOf(best_bid, best_ask) ==
    IF Truthy(best_bid) /\ Truthy(best_ask)
    THEN Some(best_ask[1] - best_bid[1]) ELSE None

MidPriceOf(best_bid, best_ask) ==
    IF Truthy(best_bid) /\ Truthy(best_ask)
    THEN Some((best_bid[1] + best_ask[1]) \div 2) ELSE None

OrderBook(coin, timestamp, bids, asks) ==
    [coin |-> coin, timestamp |-> timestamp, bids |-> bids, asks |-> asks,
     best_bid |-> BestOf(bids), best_ask |-> BestOf(asks),
     spread |-> SpreadOf(BestOf(bids), BestOf(asks)),
     mid_price |-> MidPriceOf(BestOf(bids), BestOf(asks))]

\* _reconstruct_orderbook: [ok |-> TRUE, book |-> OrderBook] or the raised
\* exception [ok |-> FALSE].
ReconstructOrderbook(raw, coin) ==
    LET levels == IF "levels" \in DOMAIN raw THEN raw.levels ELSE << >>
        bids == IF Len(levels) > 0 THEN ParseSide(levels[1])
                ELSE [ok |-> TRUE, levels |-> << >>]
        asks == IF Len(levels) > 1 THEN ParseSide(levels[2])
                ELSE [ok |-> TRUE, levels |-> << >>]
        time == IF "time" \in DOMAIN raw THEN raw.time ELSE 0
    IN IF bids.ok /\ asks.ok
       THEN [ok |-> TRUE, book |-> OrderBook(coin, time, bids.levels, asks.levels)]
       ELSE [ok |-> FALSE]

\* Mutant of PutLevel: the entry of a known price is overwritten, not added to.
RECURSIVE PutLevelOverwrite(_, _)
PutLevelOverwrite(agg, level) ==
    IF agg = << >> THEN <<level>>
    ELSE IF Head(agg).price = level.price
         THEN <<level>> \o Tail(agg)
         ELSE <<Head(agg)>> \o PutLevelOverwrite(Tail(agg), level)

\* The dict keyed by price, in insertion order: a known price adds size and
\* orders to its entry, a new price appends an entry.
RECURSIVE PutLevel(_, _)
PutLevel(agg, level) ==
    IF agg = << >> THEN <<level>>
    ELSE IF Head(agg).price = level.price
         THEN <<[price |-> Head(agg).price,
                 size |-> Head(agg).size + level.size,
                 orders |-> Head(agg).orders + level.orders]>> \o Tail(agg)
         ELSE <<Head(agg)>> \o PutLevel(Tail(agg), level)

RECURSIVE AggregateByPrice(_, _)
AggregateByPrice(agg, levels) ==
    IF levels = << >> THEN agg
    ELSE AggregateByPrice(PutLevel(agg, Head(levels)), Tail(levels))

\* list.sort(key=price): stable insertion into an ascending sequence.
RECURSIVE InsertAscending(_, _)
InsertAscending(sorted, level) ==
    IF sorted = << >> THEN <<level>>
    ELSE IF level.price < Head(sorted).price THEN <<level>> \o sorted
    ELSE <<Head(sorted)>> \o InsertAscending(Tail(sorted), level)

RECURSIVE SortAscending(_)
SortAscending(levels) ==
    IF levels = << >> THEN << >>
    ELSE InsertAscending(SortAscending(SubSeq(levels, 1, Len(levels) - 1)),
                         levels[Len(levels)])

\* list.sort(key=price, reverse=True): stable insertion, descending.
RECURSIVE InsertDescending(_, _)
InsertDescending(sorted, level) ==
    IF sorted = << >> THEN <<level>>
    ELSE IF level.price > Head(sorted).price THEN <<level>> \o sorted
    ELSE <<Head(sorted)>> \o InsertDescending(Tail(sorted), level)

RECURSIVE SortDescending(_)
SortDescending(levels) ==
    IF levels = << >> THEN << >>
    ELSE InsertDescending(SortDescending(SubSeq(levels, 1, Len(levels) - 1)),
                          levels[Len(levels)])

\* Mutant of AggregatedBids: the bids are sorted like the asks, ascending.
AggregatedBidsAscending(bids) == SortAscending(AggregateByPrice(<< >>, bids))

AggregatedBids(bids) == SortDescending(AggregateByPrice(<< >>, bids))

AggregatedAsks(asks) == SortAscending(AggregateByPrice(<< >>, asks))

\* _create_aggregated_orderbook(all_bids, all_asks, processed_coins) at
\* wall-clock time `timestamp`; processed_coins is not read by the code.
CreateAggregatedOrderbook(bids, asks, processed_coins, timestamp) ==
    OrderBook("BTC", timestamp, AggregatedBids(bids), AggregatedAsks(asks))

(***************************************************************************)
(* Inputs                                                                  *)
(***************************************************************************)
\* Level entries of a venue payload: four that parse (two of them texts of
\* the same price), one without "px" and one whose "px" is no number.
RawLevels ==
    {[px |-> "0", sz |-> "1", n |-> 1],
     [px |-> "1", sz |-> "0.5", n |-> 1],
     [px |-> "1.0", sz |-> "1", n |-> 2],
     [px |-> "2", sz |-> "1", n |-> 1],
     [sz |-> "1", n |-> 1],
     [px |-> "x", sz |-> "1", n |-> 1]}

RawSides == SeqsUpTo(RawLevels, MaxRawLevels)

\* Venue answers: no "levels" key, and "levels" of length 0, 1 and 2.
RawPayloads ==
    {[time |-> 7]}
    \cup {[levels |-> l, time |-> 7] : l \in {<< >>} \cup {<<b>> : b \in RawSides}}
    \cup {[levels |-> <<b, a>>] : b \in RawSides, a \in RawSides}

\* OrderLevel values handed to the aggregation.
BidLevels ==
    {[price |-> 0, size |-> 2, orders |-> 1],
     [price |-> 2, size |-> 1, orders |-> 1],
     [price |-> 2, size |-> 2, orders |-> 2],
     [price |-> 4, size |-> 2, orders |-> 1]}

AskLevels ==
    {[price |-> 0, size |-> 2, orders |-> 1],
     [price |-> 2, size |-> 1, orders |-> 1],
     [price |-> 4, size |-> 2, orders |-> 3]}

(***************************************************************************)
(* One call of _reconstruct_orderbook or of _create_aggregated_orderbook   *)
(***************************************************************************)
FnIdle ==
    /\ fnPc = "returned"
    /\ raw_data = [time |-> 0]
    /\ all_bids = << >>
    /\ all_asks = << >>
    /\ orderbook = None

FnInit ==
    \/ /\ fnPc = "reconstruct"
       /\ raw_data \in RawPayloads
       /\ all_bids = << >>
       /\ all_asks = << >>
       /\ orderbook = None
    \/ /\ fnPc = "aggregate"
       /\ raw_data = [time |-> 0]
       /\ all_bids \in SeqsUpTo(BidLevels, MaxAllLevels)
       /\ all_asks \in SeqsUpTo(AskLevels, MaxAllLevels)
       /\ orderbook = None

CallReconstruct ==
    /\ fnPc = "reconstruct"
    /\ LET r == ReconstructOrderbook(raw_data, "merrli:BTC")
       IN /\ fnPc' = IF r.ok THEN "reconstructed" ELSE "raised"
          /\ orderbook' = IF r.ok THEN Some(r.book) ELSE None
    /\ UNCHANGED <<raw_data, all_bids, all_asks, hubVars, dbVars, tradeVars>>

CallAggregate ==
    /\ fnPc = "aggregate"
    /\ fnPc' = "aggregated"
    /\ orderbook' = Some(CreateAggregatedOrderbook(all_bids, all_asks,
                                                   <<"merrli:BTC">>, 1))
    /\ UNCHANGED <<raw_data, all_bids, all_asks, hubVars, dbVars, tradeVars>>


(***************************************************************************)
(* Claims about the order books                                            *)
(***************************************************************************)
Returned == fnPc \in {"reconstructed", "aggregated"}

Book == orderbook[1]

PricesOf(levels) == {levels[i].price : i \in 1..Len(levels)}

RECURSIVE SizeAt(_, _)
SizeAt(levels, price) ==
    IF levels = << >> THEN 0
    ELSE (IF Head(levels).price = price THEN Head(levels).size ELSE 0)
         + SizeAt(Tail(levels), price)

RECURSIVE OrdersAt(_, _)
OrdersAt(levels, price) ==
    IF levels = << >> THEN 0
    ELSE (IF Head(levels).price = price THEN Head(levels).orders ELSE 0)
         + OrdersAt(Tail(levels), price)

\* The merged side `out` holds exactly the prices of `input`, each with the
\* summed size and order count of the input levels at that price.
Conserves(out, input) ==
    /\ PricesOf(out) = PricesOf(input)
    /\ \A i \in 1..Len(out) :
          /\ out[i].size = SizeAt(input, out[i].price)
          /\ out[i].orders = OrdersAt(input, out[i].price)

\* C1: the book returned by _create_aggregated_orderbook has its bids
\* strictly descending and its asks strictly ascending by price, hence no
\* price twice on a side.
C1_StrictlySorted ==
    fnPc = "aggregated" =>
        /\ \A i, j \in 1..Len(Book.bids) :
              i < j => Book.bids[i].price > Book.bids[j].price
        /\ \A i, j \in 1..Len(Book.asks) :
              i < j => Book.asks[i].price < Book.asks[j].price

\* C1 witness: three bids given in ascending order with one price twice,
\* three asks given in descending order, merged and sorted.
C1_Witness ==
    /\ fnPc = "aggregated"
    /\ Len(all_bids) = 3
    /\ all_bids[1].price < all_bids[2].price
    /\ all_bids[2].price = all_bids[3].price
    /\ Len(all_asks) = 3
    /\ all_asks[1].price > all_asks[2].price
    /\ all_asks[2].price > all_asks[3].price
    /\ Len(Book.bids) = 2
    /\ Len(Book.asks) = 3

\* C2: on each side independently the output prices are the input prices,
\* and size and order count at a price are the sums over the input levels
\* of that side with exactly that price.
C2_Conservation ==
    fnPc = "aggregated" =>
        /\ Conserves(Book.bids, all_bids)
        /\ Conserves(Book.asks, all_asks)

\* C2 witness: one price is given twice among the bids with different
\* sizes and also stands among the asks; the merged bid level holds the sum
\* of the two bids alone.
C2_Witness ==
    /\ fnPc = "aggregated"
    /\ \E i, j \in 1..Len(all_bids) :
          /\ i < j
          /\ all_bids[i].price = all_bids[j].price
          /\ all_bids[i].size # all_bids[j].size
          /\ \E k \in 1..Len(all_asks) : all_asks[k].price = all_bids[i].price
          /\ \E m \in 1..Len(Book.bids) :
                /\ Book.bids[m].price = all_bids[i].price
                /\ Book.bids[m].size = all_bids[i].size + all_bids[j].size
                /\ Book.bids[m].orders = all_bids[i].orders + all_bids[j].orders

\* C3: in every returned book spread and mid_price are present exactly when
\* best_bid and best_ask both are, and then spread = best_ask - best_bid
\* and mid_price = (best_bid + best_ask) / 2.
C3_SpreadMidIffBothBest ==
    Returned =>
        LET both == Book.best_bid # None /\ Book.best_ask # None
        IN /\ (Book.spread # None) <=> both
           /\ (Book.mid_price # None) <=> both
           /\ both => /\ Book.spread = Some(Book.best_ask[1] - Book.best_bid[1])
                      /\ Book.mid_price # None
                      /\ 2 * Book.mid_price[1] = Book.best_bid[1] + Book.best_ask[1]

\* C4: in every returned book best_bid is the price of the first bid when
\* there is one and absent otherwise, likewise best_ask; in the aggregated
\* book best_bid is the greatest input bid price and best_ask the least
\* input ask price.
C4_BestIsFirstLevel ==
    Returned =>
        /\ Book.best_bid = IF Book.bids = << >> THEN None
                           ELSE Some(Book.bids[1].price)
        /\ Book.best_ask = IF Book.asks = << >> THEN None
                           ELSE Some(Book.asks[1].price)
        /\ fnPc = "aggregated" =>
              /\ (all_bids = << >>) <=> (Book.best_bid = None)
              /\ (all_asks = << >>) <=> (Book.best_ask = None)
              /\ \A i \in 1..Len(all_bids) : all_bids[i].price <= Book.best_bid[1]
              /\ \A i \in 1..Len(all_asks) : all_asks[i].price >= Book.best_ask[1]
              /\ all_bids # << >> => Book.best_bid[1] \in PricesOf(all_bids)
              /\ all_asks # << >> => Book.best_ask[1] \in PricesOf(all_asks)

\* C4 witness: an aggregation whose first input bid is not the greatest and
\* whose first input ask is not the least, with best_bid 0.0 present.
C4_Witness ==
    /\ fnPc = "aggregated"
    /\ Len(all_bids) = 2
    /\ all_bids[1].price < all_bids[2].price
    /\ Len(all_asks) = 2
    /\ all_asks[1].price > all_asks[2].price
    /\ Book.best_bid = Some(all_bids[2].price)
    /\ Book.best_ask = Some(0)

(***************************************************************************)
(* The price channel: stream_aggregated_order_books and websocket_endpoint *)
(***************************************************************************)
LIST_COIN == <<"merrli:BTC", "sekaw:BTC">>

Subs == 1..MaxSubs

Pushing == {"push", "push_stale", "push_exc"}

\* info.post raised.
FetchError == [error |-> "fetch"]

\* What each venue may answer in a cycle.  The first venue: a full book, a
\* book whose second bid entry lacks "px" after a first entry that parses,
\* or no answer.  The second venue: a book with "levels" of length one (no
\* asks), or no answer.
HubAnswers ==
    <<{[levels |-> << <<[px |-> "1", sz |-> "0.5", n |-> 1]>>,
                      <<[px |-> "2", sz |-> "1", n |-> 1]>> >>, time |-> 7],
       [levels |-> << <<[px |-> "2", sz |-> "1", n |-> 1], [sz |-> "1", n |-> 1]>>,
                      <<[px |-> "3", sz |-> "1", n |-> 1]>> >>, time |-> 7],
       FetchError},
      {[levels |-> << <<[px |-> "1.0", sz |-> "1", n |-> 2],
                        [px |-> "0", sz |-> "1", n |-> 1]>> >>, time |-> 7],
       FetchError}>>

CycleAnswers ==
    {a \in [1..Len(LIST_COIN) -> UNION Range(HubAnswers)] :
        \A i \in 1..Len(LIST_COIN) : a[i] \in HubAnswers[i]}

\* Mutant of CollectFrom: the first failing venue ends the loop (break for
\* continue).
RECURSIVE CollectFromBreak(_, _, _)
CollectFromBreak(answers, i, acc) ==
    IF i > Len(LIST_COIN) THEN acc
    ELSE LET r == IF answers[i] = FetchError THEN [ok |-> FALSE]
                  ELSE ReconstructOrderbook(answers[i], LIST_COIN[i])
         IN IF r.ok
            THEN CollectFromBreak(answers, i + 1,
                     [all_bids |-> acc.all_bids \o r.book.bids,
                      all_asks |-> acc.all_asks \o r.book.asks,
                      processed_coins |-> Append(acc.processed_coins, LIST_COIN[i])])
            ELSE acc

\* The for loop over LIST_COIN: a venue whose fetch or reconstruction raises
\* is skipped whole, the others extend all_bids, all_asks, processed_coins.
RECURSIVE CollectFrom(_, _, _)
CollectFrom(answers, i, acc) ==
    IF i > Len(LIST_COIN) THEN acc
    ELSE LET r == IF answers[i] = FetchError THEN [ok |-> FALSE]
                  ELSE ReconstructOrderbook(answers[i], LIST_COIN[i])
         IN IF r.ok
            THEN CollectFrom(answers, i + 1,
                     [all_bids |-> acc.all_bids \o r.book.bids,
                      all_asks |-> acc.all_asks \o r.book.asks,
                      processed_coins |-> Append(acc.processed_coins, LIST_COIN[i])])
            ELSE CollectFrom(answers, i + 1, acc)

Collect(answers) ==
    CollectFrom(answers, 1,
                [all_bids |-> << >>, all_asks |-> << >>, processed_coins |-> << >>])

\* What each venue may answer to a request of /aggregate-order-books: a
\* book, a book with empty level arrays, a book whose bid entry lacks "px",
\* or no answer.
RouteAnswers ==
    [1..Len(LIST_COIN) ->
        {[levels |-> << <<[px |-> "1", sz |-> "0.5", n |-> 1]>>,
                        <<[px |-> "2", sz |-> "1", n |-> 1]>> >>, time |-> 7],
         [levels |-> << << >>, << >> >>, time |-> 7],
         [levels |-> << <<[sz |-> "1", n |-> 1]>>, << >> >>, time |-> 7],
         FetchError}]

\* Mutant of RouteResponse: the request answers with the aggregate of
\* whatever was collected, without testing processed_coins.
RouteResponseUnchecked(answers) ==
    LET c == Collect(answers)
    IN [status |-> 200,
        body |-> Some([success |-> TRUE,
                       data |-> CreateAggregatedOrderbook(c.all_bids, c.all_asks,
                                                          c.processed_coins, 1),
                       metadata |-> [coins_processed |-> Len(c.processed_coins),
                                     total_coins |-> Len(LIST_COIN)]])]

\* aggregate_order_books: the loop over LIST_COIN, which is the loop of the
\* price channel, then HTTP 500 when no coin was processed (the
\* HTTPException passes through `except Exception`, which raises another
\* 500), else the OrderBookResponse.
RouteResponse(answers) ==
    LET c == Collect(answers)
    IN IF c.processed_coins = << >>
       THEN [status |-> 500, body |-> None]
       ELSE [status |-> 200,
             body |-> Some([success |-> TRUE,
                            data |-> CreateAggregatedOrderbook(c.all_bids, c.all_asks,
                                                               c.processed_coins, 1),
                            metadata |-> [coins_processed |-> Len(c.processed_coins),
                                          total_coins |-> Len(LIST_COIN)]])]

\* A request of /aggregate-order-books is about to be served.
RouteInit ==
    /\ fnPc = "route"
    /\ raw_data \in RouteAnswers
    /\ all_bids = << >>
    /\ all_asks = << >>
    /\ orderbook = None

CallRoute ==
    /\ fnPc = "route"
    /\ LET r == RouteResponse(raw_data)
       IN /\ fnPc' = IF r.status = 200 THEN "responded" ELSE "http_500"
          /\ orderbook' = r.body
    /\ UNCHANGED <<raw_data, all_bids, all_asks, hubVars, dbVars, tradeVars>>

\* The frame of a cycle with at least one venue.
BookMessage(c, timestamp) ==
    [type |-> "aggregated_order_book",
     data |-> CreateAggregatedOrderbook(c.all_bids, c.all_asks,
                                        c.processed_coins, timestamp),
     metadata |-> [coins_processed |-> Len(c.processed_coins),
                   total_coins |-> Len(LIST_COIN)]]

\* The frame of a cycle with no venue, when last_orderbook is set.
StaleMessage(last) ==
    [type |-> "error",
     message |-> "Failed to retrieve order book data, sending last known data",
     data |-> last.data,
     metadata |-> last.metadata]

\* The frame of the outer except handler; str(e) of list.remove's ValueError.
ExceptionMessage ==
    [type |-> "error",
     message |-> "Failed to retrieve aggregated order book: list.remove(x): x not in list"]

\* list.remove(x) on a list that holds x.
Remove(list, x) == SelectSeq(list, LAMBDA y : y # x)

Holds(list, x) == x \in Range(list)

\* The subscribers of an ended push loop that were in its snapshot, are
\* still connected (a websocket never reopens, so they were throughout) and
\* were not sent its frame.
MissedOf(snap, gotNow) ==
    {s \in Range(snap) : conn[s] = "open" /\ s \notin gotNow}

HubInit ==
    /\ active_connections = << >>
    /\ conn = [s \in Subs |-> "new"]
    /\ hubPc = "sleep"
    /\ hubSnap = << >>
    /\ hubIdx = 0
    /\ hubMsg = None
    /\ last_orderbook = None
    /\ now = 0
    /\ cycleRaw = << >>
    /\ removeRaised = FALSE
    /\ delivered = None
    /\ got = {}
    /\ admittedLate = {}
    /\ missed = {}

\* Mutant of Connect: the push loop iterates active_connections itself and
\* not a copy, so a websocket appended during the loop is reached by it.
ConnectIntoRunningLoop(s) ==
    /\ conn[s] = "new"
    /\ \A t \in Subs : t < s => conn[t] # "new"
    /\ conn' = [conn EXCEPT ![s] = "open"]
    /\ active_connections' = Append(active_connections, s)
    /\ admittedLate' = IF hubPc \in Pushing THEN admittedLate \cup {s}
                       ELSE admittedLate
    /\ hubSnap' = IF hubPc \in Pushing THEN Append(hubSnap, s) ELSE hubSnap
    /\ UNCHANGED <<hubPc, hubIdx, hubMsg, last_orderbook, now, cycleRaw,
                   removeRaised, delivered, got, missed, fnVars, dbVars, tradeVars>>

\* websocket_endpoint up to its first receive_text: accept, then append.
\* Websockets are interchangeable, so they connect in the order of their
\* numbers.
Connect(s) ==
    /\ conn[s] = "new"
    /\ \A t \in Subs : t < s => conn[t] # "new"
    /\ conn' = [conn EXCEPT ![s] = "open"]
    /\ active_connections' = Append(active_connections, s)
    /\ admittedLate' = IF hubPc \in Pushing THEN admittedLate \cup {s}
                       ELSE admittedLate
    /\ UNCHANGED <<hubPc, hubSnap, hubIdx, hubMsg, last_orderbook, now, cycleRaw,
                   removeRaised, delivered, got, missed, fnVars, dbVars, tradeVars>>

\* The peer goes away; the handler has not been resumed yet.
PeerClose(s) ==
    /\ conn[s] = "open"
    /\ conn' = [conn EXCEPT ![s] = "closed"]
    /\ UNCHANGED <<active_connections, hubPc, hubSnap, hubIdx, hubMsg,
                   last_orderbook, now, cycleRaw, removeRaised, delivered, got,
                   admittedLate, missed, fnVars, dbVars, tradeVars>>

\* receive_text raises WebSocketDisconnect: active_connections.remove(websocket),
\* which raises ValueError when the websocket is no longer in the list.
HandlerDisconnect(s) ==
    /\ conn[s] = "closed"
    /\ conn' = [conn EXCEPT ![s] = "done"]
    /\ IF Holds(active_connections, s)
       THEN /\ active_connections' = Remove(active_connections, s)
            /\ UNCHANGED removeRaised
       ELSE /\ removeRaised' = TRUE
            /\ UNCHANGED active_connections
    /\ UNCHANGED <<hubPc, hubSnap, hubIdx, hubMsg, last_orderbook, now, cycleRaw,
                   delivered, got, admittedLate, missed, fnVars, dbVars,
                   tradeVars>>

\* Mutant of HubIdleCycle: the venues are fetched although nobody listens,
\* and the fresh aggregate replaces last_orderbook without being pushed.
HubIdleCycleFetches ==
    /\ hubPc = "sleep"
    /\ now < MaxTime
    /\ active_connections = << >>
    /\ now' = now + 1
    /\ \E answers \in CycleAnswers :
          /\ cycleRaw' = answers
          /\ last_orderbook' =
                IF Collect(answers).processed_coins # << >>
                THEN Some(BookMessage(Collect(answers), now'))
                ELSE last_orderbook
    /\ delivered' = None
    /\ missed' = {}
    /\ UNCHANGED <<active_connections, conn, hubPc, hubSnap, hubIdx, hubMsg,
                   removeRaised, got, admittedLate, fnVars, dbVars,
                   tradeVars>>

\* asyncio.sleep returns and active_connections is empty: nothing is done.
HubIdleCycle ==
    /\ hubPc = "sleep"
    /\ now < MaxTime
    /\ active_connections = << >>
    /\ now' = now + 1
    /\ cycleRaw' = << >>
    /\ delivered' = None
    /\ missed' = {}
    /\ UNCHANGED <<active_connections, conn, hubPc, hubSnap, hubIdx, hubMsg,
                   last_orderbook, removeRaised, got, admittedLate, fnVars,
                   dbVars, tradeVars>>

\* Mutant of HubCycle: the stale-data loop runs without the test of
\* last_orderbook, and sends an error frame without data when there is none.
HubCycleUnguarded(answers) ==
    /\ hubPc = "sleep"
    /\ now < MaxTime
    /\ active_connections # << >>
    /\ now' = now + 1
    /\ cycleRaw' = answers
    /\ delivered' = None
    /\ missed' = {}
    /\ LET c == Collect(answers)
       IN IF c.processed_coins # << >>
          THEN /\ hubPc' = "push"
               /\ hubMsg' = Some(BookMessage(c, now'))
               /\ hubSnap' = active_connections
               /\ hubIdx' = 1
          ELSE /\ hubPc' = "push_stale"
               /\ hubMsg' = IF last_orderbook # None
                            THEN Some(StaleMessage(last_orderbook[1]))
                            ELSE Some(StaleMessage([data |-> None, metadata |-> None]))
               /\ hubSnap' = active_connections
               /\ hubIdx' = 1
    /\ UNCHANGED <<active_connections, conn, last_orderbook, removeRaised, got,
                   admittedLate, fnVars, dbVars, tradeVars>>

\* asyncio.sleep returns with subscribers: the venues are fetched and
\* reconstructed (blocking calls, no suspension), the frame is built and
\* the first send of the broadcast loop is started.
HubCycle(answers) ==
    /\ hubPc = "sleep"
    /\ now < MaxTime
    /\ active_connections # << >>
    /\ now' = now + 1
    /\ cycleRaw' = answers
    /\ delivered' = None
    /\ missed' = {}
    /\ LET c == Collect(answers)
       IN IF c.processed_coins # << >>
          THEN /\ hubPc' = "push"
               /\ hubMsg' = Some(BookMessage(c, now'))
               /\ hubSnap' = active_connections
               /\ hubIdx' = 1
          ELSE IF last_orderbook # None
          THEN /\ hubPc' = "push_stale"
               /\ hubMsg' = Some(StaleMessage(last_orderbook[1]))
               /\ hubSnap' = active_connections
               /\ hubIdx' = 1
          ELSE UNCHANGED <<hubPc, hubMsg, hubSnap, hubIdx>>
    /\ UNCHANGED <<active_connections, conn, last_orderbook, removeRaised, got,
                   admittedLate, fnVars, dbVars, tradeVars>>

\* The for loop moves on after the send to hubSnap[hubIdx]: the next send
\* starts, or the loop ends; after the loop of a fresh aggregate
\* last_orderbook = message.
HubAdvance(gotNow) ==
    IF hubIdx < Len(hubSnap)
    THEN /\ hubIdx' = hubIdx + 1
         /\ got' = gotNow
         /\ UNCHANGED <<hubPc, hubSnap, hubMsg, last_orderbook, admittedLate,
                        missed>>
    ELSE /\ hubPc' = "sleep"
         /\ last_orderbook' = IF hubPc = "push" THEN hubMsg ELSE last_orderbook
         /\ missed' = missed \cup MissedOf(hubSnap, gotNow)
         /\ hubSnap' = << >>
         /\ hubIdx' = 0
         /\ hubMsg' = None
         /\ got' = {}
         /\ admittedLate' = {}

\* send_text to a connected peer returns: the frame is on the wire.
HubSendOk ==
    /\ hubPc \in Pushing
    /\ conn[hubSnap[hubIdx]] = "open"
    /\ delivered' = hubMsg
    /\ HubAdvance(got \cup {hubSnap[hubIdx]})
    /\ UNCHANGED <<active_connections, conn, now, cycleRaw, removeRaised, fnVars, dbVars, tradeVars>>

\* send_text to a peer that has gone returns without raising; nothing
\* reaches the peer.
HubSendLost ==
    /\ hubPc \in Pushing
    /\ conn[hubSnap[hubIdx]] \in {"closed", "done"}
    /\ HubAdvance(got)
    /\ UNCHANGED <<active_connections, conn, now, cycleRaw, removeRaised,
                   delivered, fnVars, dbVars, tradeVars>>

\* send_text to a peer that has gone raises: the bare except removes the
\* connection.  When the handler removed it already, list.remove raises
\* ValueError inside the except clause: in the broadcast loops the outer
\* `except Exception` catches it and starts the loop that sends the text of
\* the exception; in that loop nothing catches it and the task ends.
HubSendRaises ==
    /\ hubPc \in Pushing
    /\ conn[hubSnap[hubIdx]] \in {"closed", "done"}
    /\ IF Holds(active_connections, hubSnap[hubIdx])
       THEN /\ active_connections' = Remove(active_connections, hubSnap[hubIdx])
            /\ HubAdvance(got)
            /\ UNCHANGED removeRaised
       ELSE /\ removeRaised' = TRUE
            /\ missed' = missed \cup MissedOf(hubSnap, got)
            /\ got' = {}
            /\ admittedLate' = {}
            /\ UNCHANGED <<active_connections, last_orderbook>>
            /\ IF hubPc = "push_exc"
               THEN /\ hubPc' = "dead"
                    /\ hubSnap' = << >>
                    /\ hubIdx' = 0
                    /\ hubMsg' = None
               ELSE IF active_connections = << >>
               THEN /\ hubPc' = "sleep"
                    /\ hubSnap' = << >>
                    /\ hubIdx' = 0
                    /\ hubMsg' = None
               ELSE /\ hubPc' = "push_exc"
                    /\ hubMsg' = Some(ExceptionMessage)
                    /\ hubSnap' = active_connections
                    /\ hubIdx' = 1
    /\ UNCHANGED <<conn, now, cycleRaw, delivered, fnVars, dbVars, tradeVars>>

(***************************************************************************)
(* The snapshot store: PriceDatabase                                       *)
(***************************************************************************)
\* Timestamps of snapshots, in milliseconds: every half minute.
Timestamps == {k * 30000 : k \in 0..MaxTick}

\* Arguments of insert_snapshot: the JSON of an order book, whose best_ask
\* is None when the book has no asks, and a response without "data".
SnapshotInputs ==
    {[data |-> [coin |-> "BTC", timestamp |-> t, best_ask |-> a, best_bid |-> Some(2)]] :
        t \in Timestamps, a \in {Some(4), Some(6)}}
    \cup {[data |-> [coin |-> c, timestamp |-> 0, best_ask |-> a, best_bid |-> Some(2)]] :
            c \in {"BTC", "ETH"}, a \in {None, Some(4)}}
    \cup {[success |-> TRUE]}

\* The values bound to the INSERT: data.get(...) of each column, dex 'BTC'.
RowOf(order_book_data) ==
    LET data == IF "data" \in DOMAIN order_book_data
                THEN order_book_data.data ELSE [x \in {} |-> None]
        opt(key) == IF key \in DOMAIN data
                    THEN (IF key \in {"best_ask", "best_bid"} THEN data[key]
                          ELSE Some(data[key]))
                    ELSE None
    IN [coin |-> opt("coin"), dex |-> Some("BTC"), timestamp |-> opt("timestamp"),
        best_ask |-> opt("best_ask"), best_bid |-> opt("best_bid")]

KeyOf(row) == <<row.coin, row.dex, row.timestamp>>

\* The columns declared NOT NULL all hold a value.
NotNullHolds(row) ==
    /\ row.coin # None
    /\ row.dex # None
    /\ row.timestamp # None
    /\ row.best_ask # None

\* UNIQUE(coin, dex, timestamp) admits the row.
UniqueHolds(rows, row) == \A i \in 1..Len(rows) : KeyOf(rows[i]) # KeyOf(row)

\* INSERT OR IGNORE: a row that violates a NOT NULL or the UNIQUE constraint
\* is skipped without an error, and rowcount is 0.
InsertOrIgnore(rows, row) ==
    IF NotNullHolds(row) /\ UniqueHolds(rows, row)
    THEN [rows |-> Append(rows, row), rowcount |-> 1]
    ELSE [rows |-> rows, rowcount |-> 0]

\* Python truthiness of an Optional[str]: None and "" are both falsy.
TruthyStr(o) == o # None /\ o[1] # ""

\* The arguments of a call of get_snapshots; an argument that is not passed
\* is None, its default (coin has no default).
QueryArgs(coin, dex, start_timestamp, end_timestamp, limit) ==
    [coin |-> coin, dex |-> dex, start_timestamp |-> start_timestamp,
     end_timestamp |-> end_timestamp, limit |-> limit]

\* Calls of get_snapshots: every combination of bounds and limit for one
\* coin, the dex filter, another coin, and the call of get_db_head, which
\* passes no coin.
SnapshotQueries ==
    {QueryArgs(Some("BTC"), None, s, e, l) :
        s \in {None, Some(30000)},
        e \in {None, Some(0), Some(30000)},
        l \in {None, Some(0), Some(1)}}
    \cup {QueryArgs(Some("BTC"), d, None, None, None) : d \in {Some("BTC"), Some("X")}}
    \cup {QueryArgs(c, None, None, None, l) :
            c \in {Some("ETH"), None}, l \in {None, Some(1)}}

\* The WHERE clause get_snapshots builds: coin always, the others when the
\* argument is truthy.
Matches(row, args) ==
    /\ row.coin = args.coin
    /\ TruthyStr(args.dex) => row.dex = args.dex
    /\ Truthy(args.start_timestamp) => row.timestamp[1] >= args.start_timestamp[1]
    /\ Truthy(args.end_timestamp) => row.timestamp[1] <= args.end_timestamp[1]

\* ORDER BY timestamp ASC.
RECURSIVE InsertByTimestamp(_, _)
InsertByTimestamp(sorted, row) ==
    IF sorted = << >> THEN <<row>>
    ELSE IF row.timestamp[1] < Head(sorted).timestamp[1]
         THEN <<row>> \o sorted
         ELSE <<Head(sorted)>> \o InsertByTimestamp(Tail(sorted), row)

RECURSIVE OrderFrom(_, _, _)
OrderFrom(rows, i, sorted) ==
    IF i > Len(rows) THEN sorted
    ELSE OrderFrom(rows, i + 1, InsertByTimestamp(sorted, rows[i]))

\* Mutant of OrderByTimestamp: the query has no ORDER BY, the rows come in
\* insertion order.
OrderByRowid(rows) == rows

OrderByTimestamp(rows) == OrderFrom(rows, 1, << >>)

\* LIMIT ?, appended when limit is truthy.
LimitTo(rows, limit) ==
    IF Truthy(limit) /\ limit[1] < Len(rows) THEN SubSeq(rows, 1, limit[1]) ELSE rows

\* What the query of get_snapshots returns.
SelectSnapshots(rows, args) ==
    LimitTo(OrderByTimestamp(SelectSeq(rows, LAMBDA row : Matches(row, args))),
            args.limit)

\* Calls of calculate_candles.
CandleQueries ==
    {[coin |-> "BTC", timeframe_minutes |-> m, start_timestamp |-> s,
      end_timestamp |-> e] :
        m \in {1, 2}, s \in {None, Some(30000)}, e \in {None, Some(0), Some(30000)}}
    \cup {[coin |-> "ETH", timeframe_minutes |-> 1, start_timestamp |-> None,
           end_timestamp |-> None]}

Max2(a, b) == IF a >= b THEN a ELSE b

Min2(a, b) == IF a <= b THEN a ELSE b

\* The loop of calculate_candles from snapshot i on; candles is the dict, in
\* the order its keys were added.
RECURSIVE GroupCandles(_, _, _, _)
GroupCandles(snapshots, timeframe_ms, i, candles) ==
    IF i > Len(snapshots) THEN candles
    ELSE LET snapshot == snapshots[i]
             candle_start == (snapshot.timestamp[1] \div timeframe_ms) * timeframe_ms
             price == snapshot.best_ask[1]
             known == \E k \in 1..Len(candles) : candles[k].timestamp = candle_start
             opened ==
                 IF known THEN candles
                 ELSE Append(candles,
                             [timestamp |-> candle_start, open |-> price,
                              high |-> price, low |-> price, close |-> price,
                              volume |-> 0, count |-> 0])
             k == CHOOSE k \in 1..Len(opened) : opened[k].timestamp = candle_start
             candle == opened[k]
         IN GroupCandles(snapshots, timeframe_ms, i + 1,
                [opened EXCEPT ![k] =
                    [candle EXCEPT !.high = Max2(candle.high, price),
                                   !.low = Min2(candle.low, price),
                                   !.close = price,
                                   !.count = candle.count + 1]])

\* sorted(candles.values(), key=lambda x: x['timestamp']).
RECURSIVE SortCandles(_)
SortCandles(candles) ==
    IF candles = << >> THEN << >>
    ELSE LET rest == SortCandles(Tail(candles))
             before == SelectSeq(rest, LAMBDA c : c.timestamp < Head(candles).timestamp)
             after == SelectSeq(rest, LAMBDA c : c.timestamp >= Head(candles).timestamp)
         IN before \o <<Head(candles)>> \o after

\* What calculate_candles returns on a table.
CandlesOf(rows, args) ==
    LET snapshots == SelectSnapshots(rows,
                        QueryArgs(Some(args.coin), None, args.start_timestamp,
                                  args.end_timestamp, None))
    IN IF snapshots = << >> THEN << >>
       ELSE SortCandles(GroupCandles(snapshots,
                                     args.timeframe_minutes * 60 * 1000, 1, << >>))

\* Calls of cleanup_old_data: days_to_keep, and the clock in milliseconds,
\* a day and up to MaxTick half minutes after the epoch.
CleanupCalls ==
    {[days_to_keep |-> d, now |-> 24 * 3600 * 1000 + t] :
        d \in {0, 1}, t \in Timestamps}

\* cutoff_timestamp of cleanup_old_data.
CutoffOf(call) == call.now - call.days_to_keep * 24 * 3600 * 1000

\* Mutant of IsOld: the row at the cutoff is deleted too.
IsOldOrAtCutoff(row, cutoff_timestamp) == row.timestamp[1] <= cutoff_timestamp

\* DELETE ... WHERE timestamp < ?
IsOld(row, cutoff_timestamp) == row.timestamp[1] < cutoff_timestamp

DbInit ==
    /\ table = << >>
    /\ inserted = << >>
    /\ dbCalls = 0
    /\ lastCall = None

\* insert_snapshot when sqlite3 raises nothing: returns rowcount > 0.
InsertSnapshot(order_book_data) ==
    /\ dbCalls < MaxDbCalls
    /\ dbCalls' = dbCalls + 1
    /\ inserted' = Append(inserted, order_book_data)
    /\ LET r == InsertOrIgnore(table, RowOf(order_book_data))
       IN /\ table' = r.rows
          /\ lastCall' = Some([op |-> "insert_snapshot", arg |-> order_book_data,
                               fault |-> FALSE, raised |-> FALSE,
                               returned |-> r.rowcount > 0])
    /\ UNCHANGED <<fnVars, hubVars, tradeVars>>

\* insert_snapshot when connect, execute or commit raises sqlite3.Error: the
\* transaction is not committed, `except sqlite3.Error` returns False.
InsertSnapshotFault(order_book_data) ==
    /\ dbCalls < MaxDbCalls
    /\ dbCalls' = dbCalls + 1
    /\ table' = table
    /\ lastCall' = Some([op |-> "insert_snapshot", arg |-> order_book_data,
                         fault |-> TRUE, raised |-> FALSE, returned |-> FALSE])
    /\ UNCHANGED <<inserted, fnVars, hubVars, tradeVars>>

\* get_snapshots: without coin the call itself raises TypeError.
GetSnapshots(args) ==
    /\ dbCalls < MaxDbCalls
    /\ dbCalls' = dbCalls + 1
    /\ lastCall' = Some([op |-> "get_snapshots", arg |-> args, fault |-> FALSE,
                         raised |-> args.coin = None,
                         returned |-> IF args.coin = None THEN << >>
                                      ELSE SelectSnapshots(table, args)])
    /\ UNCHANGED <<table, inserted, fnVars, hubVars, tradeVars>>

\* get_latest_snapshot: the first row of get_snapshots(coin, dex, limit=1).
GetLatestSnapshot(coin) ==
    /\ dbCalls < MaxDbCalls
    /\ dbCalls' = dbCalls + 1
    /\ LET snapshots == SelectSnapshots(table,
                            QueryArgs(Some(coin), None, None, None, Some(1)))
       IN lastCall' = Some([op |-> "get_latest_snapshot", arg |-> coin,
                            fault |-> FALSE, raised |-> FALSE,
                            returned |-> IF snapshots # << >>
                                         THEN Some(snapshots[1]) ELSE None])
    /\ UNCHANGED <<table, inserted, fnVars, hubVars, tradeVars>>

CalculateCandles(args) ==
    /\ dbCalls < MaxDbCalls
    /\ dbCalls' = dbCalls + 1
    /\ lastCall' = Some([op |-> "calculate_candles", arg |-> args, fault |-> FALSE,
                         raised |-> FALSE, returned |-> CandlesOf(table, args)])
    /\ UNCHANGED <<table, inserted, fnVars, hubVars, tradeVars>>

\* cleanup_old_data: returns cursor.rowcount of the DELETE.
CleanupOldData(call) ==
    /\ dbCalls < MaxDbCalls
    /\ dbCalls' = dbCalls + 1
    /\ table' = SelectSeq(table, LAMBDA row : ~IsOld(row, CutoffOf(call)))
    /\ lastCall' = Some([op |-> "cleanup_old_data", arg |-> call, fault |-> FALSE,
                         raised |-> FALSE,
                         returned |-> Len(table) - Len(table')])
    /\ UNCHANGED <<inserted, fnVars, hubVars, tradeVars>>

(***************************************************************************)
(* The trade channel (routes/trades_websocket.py)                          *)
(***************************************************************************)
SUPPORTED_COINS == <<"merrli:BTC", "sekaw:BTC", "btcx:BTC-FEUSD">>

TradeSubs == 1..MaxTradeSubs

\* The coins the upstream pushes trades of: two of the subscribed ones and
\* one that is not.
FeedCoins == {SUPPORTED_COINS[1], SUPPORTED_COINS[2], "other:BTC"}

\* The entries of data["data"] the upstream may push: a trade of each coin
\* at each time, one whose price text float() rejects, and one without a
\* "time" key.
RawTrades ==
    {[coin |-> c, px |-> "1", time |-> t] : c \in FeedCoins, t \in 0..MaxTimestamp}
    \cup {[coin |-> SUPPORTED_COINS[1], px |-> "x", time |-> 0],
          [coin |-> SUPPORTED_COINS[1], px |-> "1"]}

\* TradeData(...).dict() of a raw trade; trade_data.get("time", 0).
TradeData(trade_data) ==
    [coin |-> trade_data.coin,
     price |-> FloatTable[trade_data.px],
     timestamp |-> IF "time" \in DOMAIN trade_data THEN trade_data.time ELSE 0]

\* Mutant of TradeKept: without the test `coin not in SUPPORTED_COINS`.
TradeKeptOfAnyCoin(trade_data) ==
    trade_data.px \in DOMAIN FloatTable

\* _process_trade keeps a raw trade when its coin is supported and
\* TradeData(...) does not raise.
TradeKept(trade_data) ==
    /\ trade_data.coin \in Range(SUPPORTED_COINS)
    /\ trade_data.px \in DOMAIN FloatTable

\* Mutant of IsMoreRecent: a trade with the timestamp of the overall latest
\* one replaces it too.
IsMoreRecentOrEqual(trade, overall) ==
    overall = None \/ trade.timestamp >= overall[1].timestamp

\* The test that makes a trade the overall latest one.
IsMoreRecent(trade, overall) ==
    overall = None \/ trade.timestamp > overall[1].timestamp

\* The scan `for coin, trade_data in latest_trades.items()` from entry i on:
\* an entry replaces the candidate when it is not empty and its timestamp is
\* greater than latest_timestamp, which starts at 0.
RECURSIVE LatestFrom(_, _, _)
LatestFrom(trades, i, latest_trade) ==
    IF i > Len(SUPPORTED_COINS)
    THEN latest_trade
    ELSE LET trade_data == trades[SUPPORTED_COINS[i]]
             latest_timestamp ==
                 IF latest_trade = None THEN 0 ELSE latest_trade[1].timestamp
         IN IF trade_data # None /\ trade_data[1].timestamp > latest_timestamp
            THEN LatestFrom(trades, i + 1, trade_data)
            ELSE LatestFrom(trades, i + 1, latest_trade)

LatestTrade(trades) == LatestFrom(trades, 1, None)

\* Mutant of NextSubscription: every request subscribes to the first coin.
NextSubscriptionFirst(sent) == SUPPORTED_COINS[1]

\* The coin of the next subscription request of subscribe_to_trades.
NextSubscription(sent) == SUPPORTED_COINS[Len(sent) + 1]

TradeInit ==
    /\ trade_connections = << >>
    /\ tradeConn = [s \in TradeSubs |-> "new"]
    /\ initial_response = [s \in TradeSubs |-> None]
    /\ supPc = "check"
    /\ running = FALSE
    /\ upstream = "none"
    /\ subscribed = << >>
    /\ ended = FALSE
    /\ latest_trades = [c \in Range(SUPPORTED_COINS) |-> None]
    /\ latest_trade_overall = None
    /\ supTodo = << >>
    /\ hbPc = "sleep"
    /\ hbTodo = << >>
    /\ hbMsg = None
    /\ discarded = FALSE
    /\ accepted = << >>
    /\ stopped = FALSE

\* Trades the cache may hold when the service starts: their price is one
\* no upstream trade of RawTrades has.
OldTrades ==
    {[coin |-> c, price |-> FloatTable["3"], timestamp |-> t] :
        c \in Range(SUPPORTED_COINS), t \in 0..MaxTimestamp}

\* Before the startup event: neither task exists, nothing is connected,
\* and latest_trades and latest_trade_overall hold old data.
TradeOff ==
    /\ trade_connections = << >>
    /\ tradeConn = [s \in TradeSubs |-> "new"]
    /\ initial_response = [s \in TradeSubs |-> None]
    /\ supPc = "off"
    /\ running = FALSE
    /\ upstream = "none"
    /\ subscribed = << >>
    /\ ended = FALSE
    /\ latest_trades \in
          {f \in [Range(SUPPORTED_COINS) -> {None} \cup {Some(o) : o \in OldTrades}] :
              /\ \A c \in Range(SUPPORTED_COINS) : f[c] # None => f[c][1].coin = c
              /\ \E c \in Range(SUPPORTED_COINS) : f[c] # None}
    /\ latest_trade_overall \in {None} \cup {Some(o) : o \in OldTrades}
    /\ supTodo = << >>
    /\ hbPc = "off"
    /\ hbTodo = << >>
    /\ hbMsg = None
    /\ discarded = FALSE
    /\ accepted = << >>
    /\ stopped = FALSE

\* Mutant of InitializeTradeStream: only latest_trade_overall is cleared.
InitializeClearsOverallOnly ==
    /\ supPc = "off"
    /\ hbPc = "off"
    /\ latest_trade_overall' = None
    /\ supPc' = "check"
    /\ hbPc' = "sleep"
    /\ accepted' = << >>
    /\ UNCHANGED <<trade_connections, tradeConn, initial_response, running,
                   upstream, subscribed, ended, latest_trades, supTodo, hbTodo,
                   hbMsg, discarded, stopped, fnVars, hubVars, dbVars>>

\* initialize_trade_stream, which the startup event awaits: it clears
\* latest_trade_overall and the entry of every supported coin, then creates
\* the two tasks; nothing suspends it in between.
InitializeTradeStream ==
    /\ supPc = "off"
    /\ hbPc = "off"
    /\ latest_trade_overall' = None
    /\ latest_trades' = [c \in DOMAIN latest_trades |->
                            IF c \in Range(SUPPORTED_COINS) THEN None
                            ELSE latest_trades[c]]
    /\ supPc' = "check"
    /\ hbPc' = "sleep"
    /\ accepted' = << >>
    /\ UNCHANGED <<trade_connections, tradeConn, initial_response, running,
                   upstream, subscribed, ended, supTodo, hbTodo, hbMsg,
                   discarded, stopped, fnVars, hubVars, dbVars>>

\* websocket_trades_endpoint up to its first await after accept: append,
\* scan latest_trades, start sending the initial frame when the scan found
\* a trade.  Websockets are interchangeable, so they connect in the order
\* of their numbers, each after the initial frame of the one before it
\* was sent.
TradeConnect(s) ==
    /\ tradeConn[s] = "new"
    /\ \A t \in TradeSubs : t < s => tradeConn[t] \notin {"new", "greeting"}
    /\ trade_connections' = Append(trade_connections, s)
    /\ LET latest_trade == LatestTrade(latest_trades)
       IN IF latest_trade # None
          THEN /\ tradeConn' = [tradeConn EXCEPT ![s] = "greeting"]
               /\ initial_response' = [initial_response EXCEPT ![s] = latest_trade]
          ELSE /\ tradeConn' = [tradeConn EXCEPT ![s] = "open"]
               /\ UNCHANGED initial_response
    /\ UNCHANGED <<supPc, running, upstream, subscribed, ended, latest_trades,
                   latest_trade_overall, supTodo, hbPc, hbTodo, hbMsg,
                   discarded, accepted, stopped, fnVars, hubVars,
                   dbVars>>

\* The send of the initial frame returns; the handler waits in receive_text.
TradeGreeted(s) ==
    /\ tradeConn[s] = "greeting"
    /\ tradeConn' = [tradeConn EXCEPT ![s] = "open"]
    /\ initial_response' = [initial_response EXCEPT ![s] = None]
    /\ UNCHANGED <<trade_connections, supPc, running, upstream, subscribed, ended,
                   latest_trades, latest_trade_overall, supTodo, hbPc, hbTodo,
                   hbMsg,
                   discarded, accepted, stopped, fnVars, hubVars,
                   dbVars>>

\* The peer goes away; the handler has not been resumed yet.
TradePeerClose(s) ==
    /\ tradeConn[s] = "open"
    /\ tradeConn' = [tradeConn EXCEPT ![s] = "closed"]
    /\ UNCHANGED <<trade_connections, initial_response, supPc, running, upstream,
                   subscribed, ended, latest_trades, latest_trade_overall,
                   supTodo, hbPc, hbTodo, hbMsg,
                   discarded, accepted, stopped, fnVars, hubVars,
                   dbVars>>

\* receive_text raises WebSocketDisconnect: active_connections.remove(websocket).
\* When a push loop removed the websocket already, list.remove raises
\* ValueError and the handler ends with it; the list is as it was.
TradeHandlerDisconnect(s) ==
    /\ tradeConn[s] = "closed"
    /\ tradeConn' = [tradeConn EXCEPT ![s] = "done"]
    /\ trade_connections' = Remove(trade_connections, s)
    /\ UNCHANGED <<initial_response, supPc, running, upstream, subscribed, ended,
                   latest_trades, latest_trade_overall, supTodo, hbPc, hbTodo,
                   hbMsg,
                   discarded, accepted, stopped, fnVars, hubVars,
                   dbVars>>

\* manage_websocket_connection at `if not ws_client.running`: it calls
\* start_trade_stream, or goes on to asyncio.sleep(1).
SupervisorCheck ==
    /\ supPc = "check"
    /\ supPc' = IF ~running THEN "connecting" ELSE "sleep"
    /\ UNCHANGED <<trade_connections, tradeConn, initial_response, running,
                   upstream, subscribed, ended, latest_trades,
                   latest_trade_overall, supTodo, hbPc, hbTodo, hbMsg,
                   discarded, accepted, stopped, fnVars, hubVars,
                   dbVars>>

\* The sleep of the supervising loop is over.
SupervisorSleep ==
    /\ supPc = "sleep"
    /\ supPc' = "check"
    /\ UNCHANGED <<trade_connections, tradeConn, initial_response, running,
                   upstream, subscribed, ended, latest_trades,
                   latest_trade_overall, supTodo, hbPc, hbTodo, hbMsg,
                   discarded, accepted, stopped, fnVars, hubVars,
                   dbVars>>

\* websockets.connect returns: connect sets running and returns True,
\* subscribe_to_trades starts.
ConnectOk ==
    /\ supPc = "connecting"
    /\ supPc' = "subscribing"
    /\ running' = TRUE
    /\ upstream' = "open"
    /\ subscribed' = << >>
    /\ ended' = FALSE
    /\ UNCHANGED <<trade_connections, tradeConn, initial_response, latest_trades,
                   latest_trade_overall, supTodo, hbPc, hbTodo, hbMsg,
                   discarded, accepted, stopped, fnVars, hubVars,
                   dbVars>>

\* websockets.connect raises: connect returns False, start_trade_stream
\* returns, the supervising loop sleeps.
ConnectFails ==
    /\ supPc = "connecting"
    /\ supPc' = "sleep"
    /\ UNCHANGED <<trade_connections, tradeConn, initial_response, running,
                   upstream, subscribed, ended, latest_trades,
                   latest_trade_overall, supTodo, hbPc, hbTodo, hbMsg,
                   discarded, accepted, stopped, fnVars, hubVars,
                   dbVars>>

\* The upstream connection drops.
UpstreamClose ==
    /\ upstream = "open"
    /\ upstream' = "closed"
    /\ UNCHANGED <<trade_connections, tradeConn, initial_response, supPc, running,
                   subscribed, ended, latest_trades, latest_trade_overall,
                   supTodo, hbPc, hbTodo, hbMsg,
                   discarded, accepted, stopped, fnVars, hubVars,
                   dbVars>>

\* One `await self.websocket.send(...)` of subscribe_to_trades returns; after
\* the last coin listen_for_trades starts.
SubscribeSend ==
    /\ supPc = "subscribing"
    /\ upstream = "open"
    /\ subscribed' = Append(subscribed, NextSubscription(subscribed))
    /\ supPc' = IF Len(subscribed') = Len(SUPPORTED_COINS)
                THEN "listening" ELSE "subscribing"
    /\ UNCHANGED <<trade_connections, tradeConn, initial_response, running,
                   upstream, ended, latest_trades, latest_trade_overall,
                   supTodo, hbPc, hbTodo, hbMsg,
                   discarded, accepted, stopped, fnVars, hubVars,
                   dbVars>>

\* A send of subscribe_to_trades raises ConnectionClosed: nothing catches it
\* before the `except Exception` of the supervising loop, which sleeps.
SubscribeRaises ==
    /\ supPc = "subscribing"
    /\ upstream = "closed"
    /\ supPc' = "sleep"
    /\ UNCHANGED <<trade_connections, tradeConn, initial_response, running,
                   upstream, subscribed, ended, latest_trades,
                   latest_trade_overall, supTodo, hbPc, hbTodo, hbMsg,
                   discarded, accepted, stopped, fnVars, hubVars,
                   dbVars>>

\* Mutant of AwaitsFrame: the next frame is read while the fan-out of the
\* previous trade is still under way.
AwaitsFrameOrPushes ==
    /\ supPc \in {"listening", "pushing"}
    /\ upstream = "open"

\* `async for message in self.websocket` yields the next frame: the task is
\* at the head of the loop, every _process_trade of the previous frame has
\* returned, and the connection is open.
AwaitsFrame ==
    /\ supPc = "listening"
    /\ upstream = "open"

\* listen_for_trades reads a frame that holds one trade and awaits
\* _process_trade of it, up to the first send of _broadcast_trade_update.
ReceiveTrade(trade_data) ==
    /\ AwaitsFrame
    /\ IF TradeKept(trade_data)
       THEN LET trade == TradeData(trade_data)
            IN /\ latest_trades' = [latest_trades EXCEPT ![trade.coin] = Some(trade)]
               /\ IF IsMoreRecent(trade, latest_trade_overall)
                  THEN /\ latest_trade_overall' = Some(trade)
                       /\ supTodo' = trade_connections
                       /\ supPc' = IF trade_connections # << >>
                                   THEN "pushing" ELSE "listening"
                  ELSE UNCHANGED <<latest_trade_overall, supTodo, supPc>>
       ELSE UNCHANGED <<latest_trades, latest_trade_overall, supTodo, supPc>>
    /\ discarded' = (trade_data.coin \notin Range(SUPPORTED_COINS))
    /\ UNCHANGED <<trade_connections, tradeConn, initial_response, running,
                   upstream, subscribed, ended, hbPc, hbTodo, hbMsg,
                   stopped, fnVars, hubVars, dbVars>>

\* listen_for_trades reads a frame that json.loads rejects: `except
\* Exception` logs, listen_for_trades and start_trade_stream return.
ReceiveRaises ==
    /\ AwaitsFrame
    /\ supPc' = "sleep"
    /\ ended' = TRUE
    /\ discarded' = FALSE
    /\ UNCHANGED <<trade_connections, tradeConn, initial_response, running,
                   upstream, subscribed, latest_trades, latest_trade_overall,
                   supTodo, hbPc, hbTodo, hbMsg, accepted, stopped,
                   fnVars, hubVars, dbVars>>

\* The iteration over the websocket finds the connection closed:
\* listen_for_trades and start_trade_stream return.
ListenClosed ==
    /\ supPc = "listening"
    /\ upstream = "closed"
    /\ supPc' = "sleep"
    /\ ended' = TRUE
    /\ discarded' = FALSE
    /\ UNCHANGED <<trade_connections, tradeConn, initial_response, running,
                   upstream, subscribed, latest_trades, latest_trade_overall,
                   supTodo, hbPc, hbTodo, hbMsg, accepted, stopped,
                   fnVars, hubVars, dbVars>>

\* A send_text of _broadcast_trade_update returns (to a peer that has gone,
\* nothing reaches it); after the last connection of the copy the receive
\* loop goes on.
BroadcastSendReturns ==
    /\ supPc = "pushing"
    /\ supTodo' = Tail(supTodo)
    /\ supPc' = IF Tail(supTodo) = << >> THEN "listening" ELSE "pushing"
    /\ UNCHANGED <<trade_connections, tradeConn, initial_response, running,
                   upstream, subscribed, ended, latest_trades,
                   latest_trade_overall, hbPc, hbTodo, hbMsg,
                   discarded, accepted, stopped, fnVars, hubVars,
                   dbVars>>

\* A send_text of _broadcast_trade_update to a peer that has gone raises:
\* the bare except removes the connection.  When it is no longer in the
\* list, list.remove raises ValueError, which the `except Exception` of
\* _process_trade logs: the rest of the copy is not sent to.
BroadcastSendRaises ==
    /\ supPc = "pushing"
    /\ tradeConn[Head(supTodo)] \in {"closed", "done"}
    /\ IF Holds(trade_connections, Head(supTodo))
       THEN /\ trade_connections' = Remove(trade_connections, Head(supTodo))
            /\ supTodo' = Tail(supTodo)
            /\ supPc' = IF Tail(supTodo) = << >> THEN "listening" ELSE "pushing"
       ELSE /\ supTodo' = << >>
            /\ supPc' = "listening"
            /\ UNCHANGED trade_connections
    /\ UNCHANGED <<tradeConn, initial_response, running, upstream, subscribed,
                   ended, latest_trades, latest_trade_overall, hbPc, hbTodo,
                   hbMsg,
                   discarded, accepted, stopped, fnVars, hubVars,
                   dbVars>>

\* broadcast_latest_trade_periodically wakes from asyncio.sleep(60), up to
\* its first send: nothing when no connection is listed or the scan of
\* latest_trades finds no trade.
HeartbeatWake ==
    /\ hbPc = "sleep"
    /\ LET latest_trade == LatestTrade(latest_trades)
       IN IF trade_connections # << >> /\ latest_trade # None
          THEN /\ hbPc' = "pushing"
               /\ hbMsg' = latest_trade
               /\ hbTodo' = trade_connections
          ELSE UNCHANGED <<hbPc, hbMsg, hbTodo>>
    /\ UNCHANGED <<trade_connections, tradeConn, initial_response, supPc, running,
                   upstream, subscribed, ended, latest_trades,
                   latest_trade_overall, supTodo,
                   discarded, accepted, stopped, fnVars, hubVars,
                   dbVars>>

\* The heartbeat's push loop after one connection of its copy: the next
\* send, or the next sleep.
HeartbeatAdvance ==
    IF Tail(hbTodo) # << >>
    THEN /\ hbTodo' = Tail(hbTodo)
         /\ UNCHANGED <<hbPc, hbMsg>>
    ELSE /\ hbTodo' = << >>
         /\ hbPc' = "sleep"
         /\ hbMsg' = None

\* A send_text of the heartbeat returns.
HeartbeatSendReturns ==
    /\ hbPc = "pushing"
    /\ HeartbeatAdvance
    /\ UNCHANGED <<trade_connections, tradeConn, initial_response, supPc, running,
                   upstream, subscribed, ended, latest_trades,
                   latest_trade_overall, supTodo,
                   discarded, accepted, stopped, fnVars, hubVars,
                   dbVars>>

\* A send_text of the heartbeat to a peer that has gone raises: the bare
\* except removes the connection.  When it is no longer in the list,
\* list.remove raises ValueError; no try encloses the loop, so the task ends.
HeartbeatSendRaises ==
    /\ hbPc = "pushing"
    /\ tradeConn[Head(hbTodo)] \in {"closed", "done"}
    /\ IF Holds(trade_connections, Head(hbTodo))
       THEN /\ trade_connections' = Remove(trade_connections, Head(hbTodo))
            /\ HeartbeatAdvance
       ELSE /\ hbPc' = "dead"
            /\ hbTodo' = << >>
            /\ hbMsg' = None
            /\ UNCHANGED trade_connections
    /\ UNCHANGED <<tradeConn, initial_response, supPc, running, upstream,
                   subscribed, ended, latest_trades, latest_trade_overall,
                   supTodo,
                   discarded, accepted, stopped, fnVars, hubVars,
                   dbVars>>

Init == HubInit /\ FnIdle /\ DbInit /\ TradeInit

Next ==
    \/ \E s \in Subs : Connect(s)
    \/ \E s \in Subs : PeerClose(s)
    \/ \E s \in Subs : HandlerDisconnect(s)
    \/ HubIdleCycle
    \/ \E answers \in CycleAnswers : HubCycle(answers)
    \/ HubSendOk
    \/ HubSendLost
    \/ HubSendRaises

Spec == Init /\ [][Next]_vars

\* One call of a pure function, or one request of /aggregate-order-books,
\* on each input; the price channel stays idle.
BookInit == (FnInit \/ RouteInit) /\ HubInit /\ DbInit /\ TradeInit

BookNext == CallReconstruct \/ CallAggregate \/ CallRoute

SpecBook == BookInit /\ [][BookNext]_vars

\* stop_trade_stream: disconnect resets running and closes the websocket
\* when there is one; closing a closed connection changes nothing.
StopTradeStream ==
    /\ running' = FALSE
    /\ upstream' = IF upstream = "open" THEN "closed" ELSE upstream
    /\ stopped' = TRUE
    /\ UNCHANGED <<trade_connections, tradeConn, initial_response, supPc,
                   subscribed, ended, latest_trades, latest_trade_overall,
                   supTodo, hbPc, hbTodo, hbMsg, discarded, accepted,
                   fnVars, hubVars, dbVars>>

\* Calls of PriceDatabase on one database; the rest stays idle.
DbNext ==
    \/ \E d \in SnapshotInputs : InsertSnapshot(d)
    \/ \E d \in SnapshotInputs : InsertSnapshotFault(d)
    \/ \E args \in SnapshotQueries : GetSnapshots(args)
    \/ \E coin \in {"BTC", "ETH"} : GetLatestSnapshot(coin)
    \/ \E args \in CandleQueries : CalculateCandles(args)
    \/ \E call \in CleanupCalls : CleanupOldData(call)

SpecDb == Init /\ [][DbNext]_vars

\* The trade channel: the supervising loop, the heartbeat and the handlers
\* of /ws/trades; the rest stays idle.
TradeNext ==
    \/ \E s \in TradeSubs : TradeConnect(s)
    \/ \E s \in TradeSubs : TradeGreeted(s)
    \/ \E s \in TradeSubs : TradePeerClose(s)
    \/ \E s \in TradeSubs : TradeHandlerDisconnect(s)
    \/ SupervisorCheck
    \/ SupervisorSleep
    \/ ConnectOk
    \/ ConnectFails
    \/ UpstreamClose
    \/ SubscribeSend
    \/ SubscribeRaises
    \/ \E trade_data \in RawTrades :
          ReceiveTrade(trade_data) /\ UNCHANGED accepted
    \/ ReceiveRaises
    \/ ListenClosed
    \/ BroadcastSendReturns
    \/ BroadcastSendRaises
    \/ HeartbeatWake
    \/ HeartbeatSendReturns
    \/ HeartbeatSendRaises

SpecTrade == Init /\ [][TradeNext]_vars

\* The startup event has run; requests are served only after it.
Serving == supPc # "off"

\* The trade channel from before the startup event on.
StartInit == HubInit /\ FnIdle /\ DbInit /\ TradeOff

\* Every other step needs one of the two tasks or a connected websocket.
StartNext ==
    \/ InitializeTradeStream
    \/ \E s \in TradeSubs : Serving /\ TradeConnect(s)
    \/ \E s \in TradeSubs : TradeGreeted(s)
    \/ \E s \in TradeSubs : TradePeerClose(s)
    \/ \E s \in TradeSubs : TradeHandlerDisconnect(s)
    \/ SupervisorCheck
    \/ SupervisorSleep
    \/ ConnectOk
    \/ ConnectFails
    \/ UpstreamClose
    \/ SubscribeSend
    \/ SubscribeRaises
    \/ \E trade_data \in RawTrades :
          ReceiveTrade(trade_data) /\ UNCHANGED accepted
    \/ ReceiveRaises
    \/ ListenClosed
    \/ BroadcastSendReturns
    \/ BroadcastSendRaises
    \/ HeartbeatWake
    \/ HeartbeatSendReturns
    \/ HeartbeatSendRaises

SpecStart == StartInit /\ [][StartNext]_vars

\* The trade _process_trade stores joins the record of the stored trades.
Accept(trade_data) ==
    IF TradeKept(trade_data)
    THEN /\ Len(accepted) < MaxAccepted
         /\ accepted' = Append(accepted, TradeData(trade_data))
    ELSE UNCHANGED accepted

\* The upstream feed with no websocket on /ws/trades: the supervising loop,
\* the frames it reads and calls of stop_trade_stream.  The heartbeat finds
\* no connection and writes nothing.
FeedNext ==
    \/ SupervisorCheck
    \/ SupervisorSleep
    \/ ConnectOk
    \/ ConnectFails
    \/ UpstreamClose
    \/ SubscribeSend
    \/ SubscribeRaises
    \/ \E trade_data \in RawTrades :
          ReceiveTrade(trade_data) /\ Accept(trade_data)
    \/ ReceiveRaises
    \/ ListenClosed
    \/ StopTradeStream

SpecFeed == Init /\ [][FeedNext]_vars

\* The trade channel with calls of stop_trade_stream.
StopNext ==
    \/ TradeNext
    \/ StopTradeStream

SpecStop == Init /\ [][StopNext]_vars

\* The entries of levels[k] of the payload, none when the payload has no
\* such array.
PayloadSide(k) ==
    IF "levels" \in DOMAIN raw_data /\ Len(raw_data.levels) >= k
    THEN raw_data.levels[k] ELSE << >>

\* The output side holds one level per given entry, in the given order,
\* with the floats of its texts and its order count.
SameLevels(out, given) ==
    /\ Len(out) = Len(given)
    /\ \A i \in 1..Len(given) :
          /\ out[i].price = FloatTable[given[i].px]
          /\ out[i].size = FloatTable[given[i].sz]
          /\ out[i].orders = given[i].n

\* C32: the book _reconstruct_orderbook returns holds the levels of
\* levels[0] and levels[1] as given: same number, same order, nothing
\* sorted or merged; an absent levels[1] gives no asks; best_bid and
\* best_ask are the prices of the first given levels.
C32_LevelsKeptAsGiven ==
    fnPc = "reconstructed" =>
        /\ SameLevels(Book.bids, PayloadSide(1))
        /\ SameLevels(Book.asks, PayloadSide(2))
        /\ Book.best_bid = IF PayloadSide(1) = << >> THEN None
                           ELSE Some(FloatTable[PayloadSide(1)[1].px])
        /\ Book.best_ask = IF PayloadSide(2) = << >> THEN None
                           ELSE Some(FloatTable[PayloadSide(2)[1].px])

\* C32 witness: the given bids ascend, so the first is not the greatest,
\* and the given asks are two entries of one price; both sides come out as
\* they went in.
C32_Witness ==
    /\ fnPc = "reconstructed"
    /\ Len(PayloadSide(1)) = 2
    /\ FloatTable[PayloadSide(1)[1].px] < FloatTable[PayloadSide(1)[2].px]
    /\ Len(PayloadSide(2)) = 2
    /\ PayloadSide(2)[1] # PayloadSide(2)[2]
    /\ FloatTable[PayloadSide(2)[1].px] = FloatTable[PayloadSide(2)[2].px]
    /\ Len(Book.asks) = 2
    /\ Book.best_bid = Some(Book.bids[1].price)
    /\ Book.best_bid[1] < Book.bids[2].price

(***************************************************************************)
(* Claims about the price channel                                          *)
(***************************************************************************)
\* A venue succeeded in a cycle when its fetch returned and every level
\* entry of its bids and asks parses.
Succeeded(answer) ==
    /\ answer # FetchError
    /\ "levels" \in DOMAIN answer =>
          \A k \in 1..Len(answer.levels) :
             k <= 2 => \A i \in 1..Len(answer.levels[k]) :
                          LevelParses(answer.levels[k][i])

SucceededVenues(answers) == {i \in 1..Len(answers) : Succeeded(answers[i])}

\* The levels of side k (1 bids, 2 asks) that venue i gave.
GivenSide(answer, k) ==
    IF "levels" \in DOMAIN answer /\ Len(answer.levels) >= k
    THEN [i \in 1..Len(answer.levels[k]) |-> OrderLevel(answer.levels[k][i])]
    ELSE << >>

\* The levels of side k of the succeeded venues among the first n.
RECURSIVE SucceededLevels(_, _, _)
SucceededLevels(answers, k, n) ==
    IF n = 0 THEN << >>
    ELSE SucceededLevels(answers, k, n - 1)
         \o (IF Succeeded(answers[n]) THEN GivenSide(answers[n], k) ELSE << >>)

\* `frame` is the aggregate of exactly the succeeded venues of `answers`.
FrameOfSucceeded(frame, answers) ==
    /\ frame.type = "aggregated_order_book"
    /\ Conserves(frame.data.bids, SucceededLevels(answers, 1, Len(answers)))
    /\ Conserves(frame.data.asks, SucceededLevels(answers, 2, Len(answers)))
    /\ frame.metadata.coins_processed = Cardinality(SucceededVenues(answers))
    /\ frame.metadata.total_coins = Len(LIST_COIN)

PartialFailure(answers) ==
    /\ SucceededVenues(answers) # {}
    /\ SucceededVenues(answers) # 1..Len(answers)

\* C5: a cycle in which some but not all venues fail is not aborted: it
\* starts the broadcast of an aggregated_order_book frame to the live set,
\* and every such frame on the wire aggregates the levels of the succeeded
\* venues only, with coins_processed the number of succeeded venues and
\* total_coins the number of configured venues.
C5_PartialFailureContained ==
    /\ [][(/\ hubPc = "sleep"
           /\ now' = now + 1
           /\ active_connections # << >>
           /\ PartialFailure(cycleRaw'))
          => (/\ hubPc' = "push"
              /\ hubSnap' = active_connections
              /\ hubIdx' = 1
              /\ FrameOfSucceeded(hubMsg'[1], cycleRaw'))]_vars
    /\ [](delivered # None /\ delivered[1].type = "aggregated_order_book"
            => FrameOfSucceeded(delivered[1], cycleRaw))

\* C5 witness: the first venue's payload parsed one bid and then failed,
\* the second venue succeeded, and a frame holding the second venue's two
\* bids and no ask, with coins_processed 1 of 2, is on the wire.
C5_Witness ==
    /\ cycleRaw # << >>
    /\ cycleRaw[1] # FetchError
    /\ ~Succeeded(cycleRaw[1])
    /\ Succeeded(cycleRaw[2])
    /\ delivered # None
    /\ delivered[1].type = "aggregated_order_book"
    /\ delivered[1].metadata = [coins_processed |-> 1, total_coins |-> 2]
    /\ PricesOf(delivered[1].data.bids) = {2, 0}
    /\ delivered[1].data.asks = << >>

\* C6: in a cycle where every venue fails and last_orderbook is set, every
\* frame put on the wire has type error and carries the data and metadata
\* of last_orderbook.
C6_StaleFrameOnTotalFailure ==
    (delivered # None /\ cycleRaw # << >> /\ SucceededVenues(cycleRaw) = {}) =>
        /\ last_orderbook # None
        /\ delivered[1].type = "error"
        /\ {"data", "metadata"} \subseteq DOMAIN delivered[1]
        /\ delivered[1].data = last_orderbook[1].data
        /\ delivered[1].metadata = last_orderbook[1].metadata

\* C7: when the disconnect handler and the polling cycle both remove the
\* same websocket, the second removal raises no error, and the websocket is
\* absent from the live set afterwards.
C7_SecondRemovalIsNoOp ==
    /\ ~removeRaised
    /\ \A s \in Subs : conn[s] = "done" => ~Holds(active_connections, s)

\* C8: every subscriber that is in the live set when a push loop starts and
\* stays connected through it is sent that loop's frame.
C8_FailureContained == missed = {}

\* C9: the loop of stream_aggregated_order_books never ends.
C9_HubLoopNeverEnds == hubPc # "dead"

\* C10: every frame on the wire has type aggregated_order_book or error,
\* carries data and metadata, and is not the frame that holds the text of
\* an exception.
C10_FrameShape ==
    delivered # None =>
        /\ delivered[1].type \in {"aggregated_order_book", "error"}
        /\ {"data", "metadata"} \subseteq DOMAIN delivered[1]
        /\ {"coins_processed", "total_coins"} \subseteq DOMAIN delivered[1].metadata
        /\ delivered[1] # ExceptionMessage

\* C11: a cycle in which every venue fails while last_orderbook is unset
\* sends nothing and starts no push loop; so a frame is on the wire only
\* when the current cycle produced an aggregate or an earlier one did.
C11_NothingBeforeFirstAggregate ==
    (last_orderbook = None /\ SucceededVenues(cycleRaw) = {}) =>
        /\ delivered = None
        /\ hubPc = "sleep"
        /\ hubMsg = None

\* C11 witness: a cycle ran with a connected subscriber, every venue
\* failed, there is no last_orderbook, and nothing was sent.
C11_Witness ==
    /\ cycleRaw # << >>
    /\ SucceededVenues(cycleRaw) = {}
    /\ last_orderbook = None
    /\ \E s \in Subs : conn[s] = "open" /\ Holds(active_connections, s)
    /\ delivered = None
    /\ hubPc = "sleep"

\* C27: a cycle that starts with an empty active_connections fetches no
\* venue, builds no frame, starts no push loop, puts nothing on the wire
\* and leaves last_orderbook as it was.
C27_IdleCycleDoesNothing ==
    [][(hubPc = "sleep" /\ active_connections = << >> /\ now' # now) =>
          /\ cycleRaw' = << >>
          /\ hubPc' = "sleep"
          /\ delivered' = None
          /\ UNCHANGED <<last_orderbook, hubMsg, hubSnap, hubIdx, got>>]_vars

\* C27 witness: an aggregate was pushed, the subscribers left, and a cycle
\* then ran with nobody connected.
C27_Witness ==
    /\ now > 0
    /\ cycleRaw = << >>
    /\ active_connections = << >>
    /\ last_orderbook # None
    /\ hubPc = "sleep"
    /\ delivered = None

\* send_text of the running push loop returns for the connected websocket s.
SendsTo(s) ==
    /\ hubPc \in Pushing
    /\ hubSnap[hubIdx] = s
    /\ conn[s] = "open"
    /\ hubIdx' # hubIdx

\* C28: accepting a websocket on /ws/prices puts no frame on the wire and
\* does not touch the running push loop, and a push loop sends its frame
\* to no websocket that was accepted after the loop started.
C28_NoReplayOnAdmission ==
    [][\A s \in Subs :
          /\ (conn[s] = "new" /\ conn'[s] = "open") =>
                UNCHANGED <<delivered, got, hubIdx, hubMsg, hubPc>>
          /\ SendsTo(s) => s \notin admittedLate]_vars

\* C28 witness: a push loop has sent its frame to a websocket while another
\* one, accepted after the loop started, is connected and listed.
C28_Witness ==
    /\ hubPc \in Pushing
    /\ got # {}
    /\ \E s \in admittedLate :
          /\ conn[s] = "open"
          /\ Holds(active_connections, s)
          /\ s \notin got

\* C33: last_orderbook never lags behind an aggregate a websocket was sent:
\* when the push loop of a fresh aggregate is over and its frame reached
\* somebody, last_orderbook is that frame, so the data of a later stale
\* error frame is the data of the most recent aggregate on the wire.
C33_LastKnownGoodFollowsPushes ==
    [][(hubPc = "push" /\ hubPc' # "push" /\ delivered' = hubMsg) =>
          last_orderbook' = hubMsg]_vars

\* C25: a request of /aggregate-order-books ends in an error when every
\* venue failed, and never in a success response; when at least one venue
\* answered, with empty level arrays or not, it returns success with
\* coins_processed >= 1.
C25_NoVenueIsAnError ==
    fnPc \in {"responded", "http_500"} =>
        IF SucceededVenues(raw_data) = {}
        THEN fnPc = "http_500" /\ orderbook = None
        ELSE /\ fnPc = "responded"
             /\ orderbook # None
             /\ orderbook[1].success
             /\ orderbook[1].metadata.coins_processed >= 1
             /\ orderbook[1].metadata.coins_processed =
                   Cardinality(SucceededVenues(raw_data))

\* The only venue that answered gave empty level arrays: the response is a
\* success with an empty book and coins_processed 1.
C25_Witness ==
    /\ fnPc = "responded"
    /\ raw_data[1] = FetchError
    /\ orderbook[1].data.bids = << >>
    /\ orderbook[1].data.asks = << >>
    /\ orderbook[1].metadata.coins_processed = 1

(***************************************************************************)
(* Claims about the trade channel                                          *)
(***************************************************************************)
\* C12: after the receive loop of the trade feed has ended (the upstream
\* connection closed, or an exception escaped the handling of a frame), the
\* supervising loop makes a new connection attempt: its next test of
\* ws_client.running sends it to start_trade_stream.
C12_ReconnectsAfterListenEnds ==
    [][(ended /\ supPc = "check" /\ supPc' # "check") =>
            supPc' = "connecting"]_vars

\* C13: the supervising loop never gives up: whenever it is between two
\* rounds (sleeping, or about to test ws_client.running) the test will pass
\* and a connection attempt follows.  Nothing in the loop resets running,
\* so a round that starts with running set starts no attempt, nor does any
\* later one.
C13_SupervisorNeverGivesUp ==
    supPc \in {"check", "sleep"} => ~running

\* C14: on a connection the client has sent at most one subscription
\* request per configured symbol, in the configured order, and it has sent
\* one for every symbol before it reads a frame of that connection.
C14_SubscribesAllBeforeListening ==
    /\ Len(subscribed) <= Len(SUPPORTED_COINS)
    /\ \A i \in 1..Len(subscribed) : subscribed[i] = SUPPORTED_COINS[i]
    /\ supPc \in {"listening", "pushing"} => subscribed = SUPPORTED_COINS

\* The client listens on a connection it sent every subscription on, and
\* has read a trade of it.
C14_Witness ==
    /\ supPc = "listening"
    /\ upstream = "open"
    /\ subscribed = SUPPORTED_COINS
    /\ latest_trade_overall # None

\* The raw trades of coins that are not in SUPPORTED_COINS, and those
\* _process_trade keeps.
UnsupportedTrades ==
    {trade_data \in RawTrades : trade_data.coin \notin Range(SUPPORTED_COINS)}

KeptTrades == {trade_data \in RawTrades : TradeKept(trade_data)}

\* C15: a trade that is kept becomes the overall latest trade and is pushed
\* to the listed connections exactly when there is no overall latest trade
\* yet or its timestamp is strictly greater than that one's; otherwise it
\* only replaces the latest trade of its own coin and nothing is pushed.
C15_PushIffStrictlyMoreRecent ==
    [][AwaitsFrame => \A trade_data \in KeptTrades :
          ReceiveTrade(trade_data) =>
             LET trade == TradeData(trade_data)
             IN /\ latest_trades' =
                      [latest_trades EXCEPT ![trade.coin] = Some(trade)]
                /\ IF \/ latest_trade_overall = None
                      \/ trade.timestamp > latest_trade_overall[1].timestamp
                   THEN /\ latest_trade_overall' = Some(trade)
                        /\ supTodo' = trade_connections
                        /\ supPc' = "pushing" <=> trade_connections # << >>
                   ELSE /\ latest_trade_overall' = latest_trade_overall
                        /\ supTodo' = << >>
                        /\ supPc' = "listening"]_vars

\* A trade of another coin with the timestamp of the overall latest trade
\* was kept while a websocket was connected: it is the latest of its coin,
\* it is not the overall latest trade and no push is going on.
C15_Witness ==
    /\ latest_trade_overall # None
    /\ supPc = "listening"
    /\ supTodo = << >>
    /\ \E s \in TradeSubs : tradeConn[s] = "open" /\ Holds(trade_connections, s)
    /\ \E c \in Range(SUPPORTED_COINS) :
          /\ latest_trades[c] # None
          /\ latest_trades[c] # latest_trade_overall
          /\ latest_trades[c][1].timestamp = latest_trade_overall[1].timestamp
          /\ latest_trades[latest_trade_overall[1].coin] = latest_trade_overall

\* C29: a trade whose coin is not in SUPPORTED_COINS leaves latest_trades
\* and latest_trade_overall as they were, starts no fan-out and sends no
\* frame to any websocket.
C29_UnsupportedCoinDiscarded ==
    [][AwaitsFrame => \A trade_data \in UnsupportedTrades :
          ReceiveTrade(trade_data) =>
             /\ discarded'
             /\ UNCHANGED <<latest_trades, latest_trade_overall, supTodo, supPc,
                            trade_connections, initial_response, hbTodo,
                            hbMsg>>]_vars

\* C29 witness: with a websocket connected and an overall latest trade
\* known, the last trade read was of an unsupported coin; no fan-out runs.
C29_Witness ==
    /\ discarded
    /\ supPc = "listening"
    /\ supTodo = << >>
    /\ latest_trade_overall # None
    /\ \E s \in TradeSubs : tradeConn[s] = "open" /\ Holds(trade_connections, s)

\* C30: latest_trades and latest_trade_overall are written only by the
\* receive loop at the head of its iteration, with no fan-out under way;
\* while a fan-out is under way the loop reads nothing, and the fan-out
\* only shrinks until it is over.
C30_OneTradeAtATime ==
    [][/\ (latest_trades' # latest_trades
           \/ latest_trade_overall' # latest_trade_overall) =>
             (supPc = "listening" /\ supTodo = << >>)
       /\ supPc = "pushing" =>
             /\ UNCHANGED <<latest_trades, latest_trade_overall, discarded>>
             /\ supTodo' \in {supTodo, Tail(supTodo), << >>}
             /\ supPc' \in {"pushing", "listening"}
             /\ supPc' = "pushing" <=> supTodo' # << >>]_vars

\* C30 witness: the fan-out of a trade has sent to one of two listed
\* websockets and awaits the send to the other, on an open feed connection.
C30_Witness ==
    /\ supPc = "pushing"
    /\ upstream = "open"
    /\ latest_trade_overall # None
    /\ Len(trade_connections) = 2
    /\ Len(supTodo) = 1
    /\ supTodo[1] = trade_connections[2]

\* The cache entries and frames that hold a trade from before the start.
OldEntries == {Some(o) : o \in OldTrades}

\* The trades a push can take its frame from: the cache, the frame of the
\* running heartbeat and the initial frames being sent.
PushableTrades ==
    {latest_trades[c] : c \in DOMAIN latest_trades}
    \cup {latest_trade_overall, hbMsg}
    \cup {initial_response[s] : s \in TradeSubs}

\* C31: initialize_trade_stream leaves latest_trade_overall and every entry
\* of latest_trades empty when the supervising loop and the heartbeat
\* start, and from then on no frame is built from a trade that was in the
\* cache before the start.
C31_StartClearsLatestState ==
    [][/\ (~Serving /\ Serving') =>
             /\ latest_trade_overall' = None
             /\ \A c \in Range(SUPPORTED_COINS) : latest_trades'[c] = None
             /\ supPc' = "check"
             /\ hbPc' = "sleep"
       /\ Serving' => PushableTrades' \cap OldEntries = {}]_vars

\* C31 witness: every start of this specification finds old trades in the
\* cache; after it a trade was read from the feed and the heartbeat is
\* pushing it to a connected websocket.
C31_Witness ==
    /\ Serving
    /\ hbPc = "pushing"
    /\ hbMsg # None
    /\ latest_trade_overall # None
    /\ \E s \in TradeSubs : tradeConn[s] = "open" /\ Holds(trade_connections, s)

\* The greatest timestamp among the stored trades.
MaxStamp == CHOOSE m \in {accepted[i].timestamp : i \in DOMAIN accepted} :
                \A i \in DOMAIN accepted : accepted[i].timestamp <= m

\* The first stored trade that carries the greatest timestamp.
FirstOfMaxStamp ==
    accepted[CHOOSE i \in DOMAIN accepted :
                 /\ accepted[i].timestamp = MaxStamp
                 /\ \A j \in 1..(i - 1) : accepted[j].timestamp < MaxStamp]

\* C34: after every step of the feed the overall latest trade is the
\* stored trade with the greatest timestamp, the first one read among those
\* of that timestamp, and there is none before a trade is stored; its
\* timestamp is at least that of every per-coin entry, and no step lowers
\* it or empties it.
C34_OverallIsFirstOfMaxStamp ==
    [][/\ latest_trade_overall' =
              (IF accepted = << >> THEN None ELSE Some(FirstOfMaxStamp))'
       /\ \A c \in Range(SUPPORTED_COINS) :
              latest_trades'[c] # None =>
                  /\ latest_trade_overall' # None
                  /\ latest_trades'[c][1].timestamp
                        <= latest_trade_overall'[1].timestamp
       /\ latest_trade_overall # None =>
              /\ latest_trade_overall' # None
              /\ latest_trade_overall'[1].timestamp
                    >= latest_trade_overall[1].timestamp]_vars

\* Three trades were stored over two upstream connections: the first two
\* of two coins carry the greatest timestamp, the third an older one, and
\* the overall latest trade is the first.
C34_Witness ==
    /\ Len(accepted) = 3
    /\ stopped
    /\ accepted[1].timestamp = accepted[2].timestamp
    /\ accepted[1].coin # accepted[2].coin
    /\ accepted[3].timestamp < accepted[1].timestamp
    /\ latest_trade_overall = Some(accepted[1])
    /\ latest_trades[accepted[3].coin] = Some(accepted[3])

\* C35: once stop_trade_stream has returned, no step opens an upstream
\* connection, none stores a trade in latest_trades or latest_trade_overall,
\* and none starts the fan-out of a trade.
C35_FeedStaysStopped ==
    [][stopped =>
          /\ upstream' = "open" => upstream = "open"
          /\ UNCHANGED <<latest_trades, latest_trade_overall>>
          /\ supPc' = "pushing" => supPc = "pushing"]_vars

\* C16: a heartbeat that fires while a websocket is connected and an
\* overall latest trade exists pushes a frame, and the trade in it is the
\* overall latest trade.
C16_HeartbeatPushesOverallLatest ==
    [][(/\ HeartbeatWake
        /\ latest_trade_overall # None
        /\ \E s \in TradeSubs :
              tradeConn[s] = "open" /\ Holds(trade_connections, s)) =>
            /\ hbPc' = "pushing"
            /\ hbMsg' = latest_trade_overall]_vars

\* C17: a websocket that connects to /ws/trades is sent an initial frame if
\* and only if an overall latest trade exists, and the trade in the frame is
\* the overall latest trade.
C17_InitialFrameIsOverallLatest ==
    [][\A s \in TradeSubs :
          (tradeConn[s] = "new" /\ tradeConn'[s] # "new") =>
             /\ tradeConn'[s] = "greeting" <=> latest_trade_overall # None
             /\ initial_response'[s] = latest_trade_overall]_vars

\* C18: the heartbeat task never ends.
C18_HeartbeatNeverEnds == hbPc # "dead"

(***************************************************************************)
(* Claims about the snapshot store                                         *)
(***************************************************************************)
InsertReturns == dbCalls' = dbCalls + 1 /\ lastCall'[1].op = "insert_snapshot"

HasKey(rows, key) == \E i \in 1..Len(rows) : KeyOf(rows[i]) = key

\* C19: the table holds at most one row per (coin, dex, timestamp); an
\* insert_snapshot that meets no storage error reports inserted (True) for
\* a key the table does not hold, and reports duplicate (False) and leaves
\* the table unchanged for a key it holds.
C19_InsertIdempotent ==
    /\ [](\A i, j \in 1..Len(table) : KeyOf(table[i]) = KeyOf(table[j]) => i = j)
    /\ [][(InsertReturns /\ ~lastCall'[1].fault) =>
            LET row == RowOf(lastCall'[1].arg)
            IN IF HasKey(table, KeyOf(row))
               THEN lastCall'[1].returned = FALSE /\ table' = table
               ELSE lastCall'[1].returned = TRUE /\ HasKey(table', KeyOf(row))]_vars

\* C20: a storage error is raised to the caller of insert_snapshot, and is
\* never the value returned for a duplicate.
C20_StorageErrorSurfaces ==
    (lastCall # None /\ lastCall[1].op = "insert_snapshot" /\ lastCall[1].fault) =>
        /\ lastCall[1].raised
        /\ lastCall[1].returned # FALSE

\* The latest call is a call of op.
Called(op) == lastCall # None /\ lastCall[1].op = op

\* A row satisfies every filter that was supplied to get_snapshots.
SatisfiesSupplied(row, args) ==
    /\ args.coin # None => row.coin = args.coin
    /\ args.dex # None => row.dex = args.dex
    /\ args.start_timestamp # None => row.timestamp[1] >= args.start_timestamp[1]
    /\ args.end_timestamp # None => row.timestamp[1] <= args.end_timestamp[1]

\* C21: get_snapshots returns the stored rows that satisfy every supplied
\* filter, where a filter that is not supplied, coin included, constrains
\* nothing, ascending by timestamp, cut to the first limit rows when a limit
\* is given.
C21_QueryReturnsFilteredRows ==
    Called("get_snapshots") =>
        LET args == lastCall[1].arg
            selected == OrderFrom(SelectSeq(table,
                            LAMBDA row : SatisfiesSupplied(row, args)), 1, << >>)
        IN /\ ~lastCall[1].raised
           /\ lastCall[1].returned =
                 IF args.limit # None /\ args.limit[1] < Len(selected)
                 THEN SubSeq(selected, 1, args.limit[1])
                 ELSE selected

\* The rows of the table that calculate_candles is asked about: those of
\* the coin whose timestamp is within the bounds that were given.
InCandleRange(args) ==
    {i \in 1..Len(table) :
        /\ table[i].coin = Some(args.coin)
        /\ args.start_timestamp # None =>
              table[i].timestamp[1] >= args.start_timestamp[1]
        /\ args.end_timestamp # None =>
              table[i].timestamp[1] <= args.end_timestamp[1]}

BucketOf(i, args) ==
    (table[i].timestamp[1] \div (args.timeframe_minutes * 60000))
        * (args.timeframe_minutes * 60000)

\* C22: calculate_candles returns one candle per non-empty bucket, ascending
\* by bucket start floor(timestamp / width) * width; open is the ask of the
\* bucket's earliest snapshot, close that of its latest, high and low the
\* greatest and least ask in it, count the number of its snapshots; a range
\* without snapshots gives the empty sequence.
C22_CandlesOfBuckets ==
    Called("calculate_candles") =>
        LET args == lastCall[1].arg
            candles == lastCall[1].returned
            rows == InCandleRange(args)
        IN /\ \A k \in 1..Len(candles) - 1 :
                 candles[k].timestamp < candles[k + 1].timestamp
           /\ {candles[k].timestamp : k \in 1..Len(candles)} =
                 {BucketOf(i, args) : i \in rows}
           /\ \A k \in 1..Len(candles) :
                 LET members == {i \in rows : BucketOf(i, args) = candles[k].timestamp}
                     first == CHOOSE i \in members : \A j \in members :
                                 table[i].timestamp[1] <= table[j].timestamp[1]
                     last == CHOOSE i \in members : \A j \in members :
                                 table[i].timestamp[1] >= table[j].timestamp[1]
                 IN /\ candles[k].open = table[first].best_ask[1]
                    /\ candles[k].close = table[last].best_ask[1]
                    /\ \A i \in members : candles[k].high >= table[i].best_ask[1]
                    /\ \E i \in members : candles[k].high = table[i].best_ask[1]
                    /\ \A i \in members : candles[k].low <= table[i].best_ask[1]
                    /\ \E i \in members : candles[k].low = table[i].best_ask[1]
                    /\ candles[k].count = Cardinality(members)

\* The table after the insert_snapshot calls of a sequence of arguments.
RECURSIVE StoreFrom(_, _, _)
StoreFrom(arguments, i, rows) ==
    IF i > Len(arguments) THEN rows
    ELSE StoreFrom(arguments, i + 1, InsertOrIgnore(rows, RowOf(arguments[i])).rows)

StoreOf(arguments) == StoreFrom(arguments, 1, << >>)

Reorderings(n) ==
    {f \in [1..n -> 1..n] : \A i, j \in 1..n : f[i] = f[j] => i = j}

\* Every order of the inserts made gives calculate_candles the result the
\* latest call returned.
SameCandlesInEveryOrder ==
    \A f \in Reorderings(Len(inserted)) :
        CandlesOf(StoreOf([i \in 1..Len(inserted) |-> inserted[f[i]]]),
                  lastCall[1].arg) = lastCall[1].returned

\* No two inserted snapshots have the same coin and timestamp.
DistinctKeys ==
    \A i, j \in 1..Len(inserted) :
        KeyOf(RowOf(inserted[i])) = KeyOf(RowOf(inserted[j])) => i = j

\* C23 as stated: the candles of a coin are the same for every permutation
\* of the order in which the same snapshots were inserted.
C23_CandlesIgnoreInsertionOrder ==
    (Called("calculate_candles") /\ table = StoreOf(inserted)) =>
        SameCandlesInEveryOrder

\* C23, amended: the candles of a coin are the same for every permutation of
\* the order in which the same snapshots were inserted, when no two of the
\* snapshots have the same coin and timestamp.
C23_CandlesIgnoreOrderOfDistinctKeys ==
    (Called("calculate_candles") /\ table = StoreOf(inserted) /\ DistinctKeys) =>
        SameCandlesInEveryOrder

\* Candles were computed of two snapshots of one bucket that were inserted
\* latest first, with different asks: open is the ask of the one inserted
\* last.
C23_Witness ==
    /\ Called("calculate_candles")
    /\ table = StoreOf(inserted)
    /\ DistinctKeys
    /\ Len(table) = 2
    /\ table[1].timestamp[1] > table[2].timestamp[1]
    /\ table[1].best_ask # table[2].best_ask
    /\ Len(lastCall[1].returned) = 1
    /\ lastCall[1].returned[1].count = 2
    /\ lastCall[1].returned[1].open = table[2].best_ask[1]

\* C24: cleanup_old_data deletes the rows whose timestamp is older than now
\* minus days_to_keep and no other row, leaves the rows it keeps as they
\* are, and returns the number of rows it deleted, 0 when there is none.
C24_CleanupDeletesOldRows ==
    [][(dbCalls' = dbCalls + 1 /\ lastCall'[1].op = "cleanup_old_data") =>
          LET call == lastCall'[1].arg
              cutoff == call.now - call.days_to_keep * 86400000
          IN /\ table' = SelectSeq(table, LAMBDA row : row.timestamp[1] >= cutoff)
             /\ lastCall'[1].returned =
                   Cardinality({i \in 1..Len(table) : table[i].timestamp[1] < cutoff})
             /\ ~lastCall'[1].raised]_vars

\* A cleanup deleted a row and kept the row whose timestamp is the cutoff.
C24_Witness ==
    /\ Called("cleanup_old_data")
    /\ lastCall[1].returned >= 1
    /\ \E i \in 1..Len(table) :
          table[i].timestamp[1] = CutoffOf(lastCall[1].arg)

\* C26: get_latest_snapshot returns the stored snapshot of the coin with the
\* greatest timestamp, and None when the coin has no snapshot.
C26_LatestSnapshotIsNewest ==
    Called("get_latest_snapshot") =>
        LET of_coin == {i \in 1..Len(table) : table[i].coin = Some(lastCall[1].arg)}
        IN IF of_coin = {}
           THEN lastCall[1].returned = None
           ELSE /\ lastCall[1].returned # None
                /\ \E i \in of_coin : table[i] = lastCall[1].returned[1]
                /\ \A i \in of_coin :
                      table[i].timestamp[1] <= lastCall[1].returned[1].timestamp[1]

====
